---- MODULE Spec2Model ----
(***************************************************************************)
(* Verification model of the goldfish memory system.                       *)
(*                                                                         *)
(* Attention scores (f32 in the source) are modelled as integers in        *)
(* twentieths: 0.5 is 10, 0.1 is 2, 1.0 is 20; the decay a * 0.95 is       *)
(* (a * 95) \div 100, rounded down to the next twentieth.                  *)
(***************************************************************************)
EXTENDS Integers, Sequences, FiniteSets, TLC

\* ------------------------------------------------------------------------
\* Bounds of the model
\* ------------------------------------------------------------------------
NumIds == 2
MaxItems == 1
MaxTime == 1
NumMems == 2
MaxEdges == 2
MaxDepth == 2
MaxLinks == 1

Ids == 1..NumIds
\* ttl inputs of remember: None, an already elapsed ttl, a ttl of one tick
TtlChoices == {-1, 0, 1}

\* ------------------------------------------------------------------------
\* Working memory (src/src/cortex.rs)
\* ------------------------------------------------------------------------
InitialAttention == 10
AttentionBump == 2
MaxAttention == 20
DecayThreshold == 2
NoExpiry == -1

\* items: WorkingMemory.items; now: the clock read by Utc::now();
\* lastOp: the kind of the operation that ran last: "remember", "remember_trim"
\* (a remember whose cleanup truncated the list), "decay", "assoc_insert",
\* "assoc_update", "delete_cascade" (a delete that removed associations) or
\* "other"
VARIABLES items, now, lastOp

\* memories: the rows of table memories, by id (NoRow: no row);
\* associations: the rows of table associations;
\* ret: the outcome of the last store call
VARIABLES memories, associations, ret

\* index: the ids that have a document in the full-text index;
\* vectors: the ids that have a vector in the vector backend;
\* matched: the forgotten ids that a search for their own content returned
\* when forget was called
VARIABLES index, vectors, matched

\* call: the write in flight (its operation, its memory id, whether a vector
\* backend is attached, its ttl, the step it is about to run) and the effects
\* it has made observable so far, in order
VARIABLE call

\* experiences: the rows of the experiences table, by episode id;
\* expLinks: the rows of the experience_memories table;
\* current: the current_experience slot of the cortex;
\* summaries: the rows of the memory_summaries table
VARIABLES experiences, expLinks, current, summaries

wmVars == <<items, now, lastOp>>
idxVars == <<index, vectors, matched>>
storeVars == <<memories, associations, ret, idxVars>>
cortexVars == <<experiences, expLinks, current, summaries>>
vars == <<items, now, lastOp, memories, associations, ret, index, vectors, matched, call,
          experiences, expLinks, current, summaries>>

SeqRange(q) == {q[i] : i \in 1..Len(q)}

Min2(a, b) == IF a < b THEN a ELSE b
Max2(a, b) == IF a > b THEN a ELSE b

\* position of the item with the given id, 0 when absent
RECURSIVE FindFrom(_, _, _)
FindFrom(s, id, i) ==
    IF i > Len(s) THEN 0
    ELSE IF s[i].memory_id = id THEN i
    ELSE FindFrom(s, id, i + 1)

Find(s, id) == FindFrom(s, id, 1)

\* expires_at of an item is still in the future
NotExpired(i) == i.expires_at = NoExpiry \/ i.expires_at > now

\* a sort that compares attention only
BeforeByAttention(a, b) == a.attention_score > b.attention_score

\* sort_by key: pinned first, then attention descending; a comes strictly before b
Before(a, b) ==
    \/ a.pinned /\ ~b.pinned
    \/ a.pinned = b.pinned /\ a.attention_score > b.attention_score

\* stable insertion of x into a sorted sequence (after every element not after it)
RECURSIVE InsertSorted(_, _)
InsertSorted(s, x) ==
    IF s = <<>> THEN <<x>>
    ELSE IF Before(x, Head(s)) THEN <<x>> \o s
    ELSE <<Head(s)>> \o InsertSorted(Tail(s), x)

\* stable sort (Vec::sort_by is stable)
RECURSIVE SortItems(_)
SortItems(s) ==
    IF s = <<>> THEN <<>>
    ELSE InsertSorted(SortItems(SubSeq(s, 1, Len(s) - 1)), s[Len(s)])

PinnedCount(s) == Cardinality({i \in 1..Len(s) : s[i].pinned})

Truncate(s, n) == IF Len(s) > n THEN SubSeq(s, 1, n) ELSE s

CleanupKeep(i) == i.pinned \/ NotExpired(i)

\* a cleanup that never trims
CleanupNoTrim(s) == SortItems(SelectSeq(s, CleanupKeep))

Cleanup(s) ==
    LET live == SelectSeq(s, CleanupKeep)
        sorted == SortItems(live)
    IN IF Len(sorted) > MaxItems
       THEN Truncate(sorted, Max2(MaxItems, PinnedCount(sorted)))
       ELSE sorted

\* WorkingMemory::remember(memory, ttl); ttl = NoExpiry stands for None
WmInsert(s, id, ttl) ==
    LET exp == IF ttl = NoExpiry THEN NoExpiry ELSE now + ttl
        k == Find(s, id)
        upd == IF k > 0
               THEN [s EXCEPT ![k] =
                       [@ EXCEPT !.attention_score = Min2(@ + AttentionBump, MaxAttention),
                                 !.expires_at = IF exp # NoExpiry THEN exp ELSE @]]
               ELSE Append(s, [memory_id |-> id, attention_score |-> InitialAttention,
                               expires_at |-> exp, pinned |-> FALSE])
    IN upd

WmRemember(s, id, ttl) == Cleanup(WmInsert(s, id, ttl))

\* the capacity branch of cleanup is taken by remember(id, ttl)
WmTrims(s, id, ttl) == Len(SelectSeq(WmInsert(s, id, ttl), CleanupKeep)) > MaxItems

WmFocus(s, id) ==
    LET k == Find(s, id)
    IN IF k > 0 THEN [s EXCEPT ![k].attention_score = MaxAttention] ELSE s

WmSetPinned(s, id, p) ==
    LET k == Find(s, id)
    IN IF k > 0 THEN [s EXCEPT ![k].pinned = p] ELSE s

DecayKeepLive(i) == i.pinned \/ NotExpired(i)
DecayKeepAttn(i) == i.pinned \/ i.attention_score > DecayThreshold

\* a decay that leaves the attention where it is
DecayScoreHeld(a) == a

\* attention_score *= 0.95
DecayScore(a) == (a * 95) \div 100

WmDecay(s) ==
    LET live == SelectSeq(s, DecayKeepLive)
        dec == [k \in 1..Len(live) |->
                  IF live[k].pinned THEN live[k]
                  ELSE [live[k] EXCEPT !.attention_score = DecayScore(@)]]
    IN SelectSeq(dec, DecayKeepAttn)

\* WorkingMemory::new
WmNew == items = <<>> /\ now = 0 /\ lastOp = "other"

\* ------------------------------------------------------------------------
\* Memories and associations (src/src/types.rs, src/src/store.rs)
\* ------------------------------------------------------------------------
MemIds == 1..NumMems
Terms == {1, 2}
MemoryTypes == {"fact", "preference"}
RelationTypes == {"related_to", "updates"}
\* Association::new sets weight 0.5; with_weight(0.9) is the other input
DefaultWeight == 50
Weights == {DefaultWeight, 90}
NoRow == [absent |-> TRUE]

\* MemoryType::default_importance, in hundredths
DefaultImportance(t) == IF t = "fact" THEN 60 ELSE 70

\* the memories a client builds: memory id has a fixed text (a set of terms)
\* and a fixed type; the third memory has the text of the first
ContentOf(id) == IF id % 3 = 2 THEN {1, 2} ELSE {1}

TypeOf(id) == IF id % 2 = 1 THEN "fact" ELSE "preference"

\* Memory::new(content, memory_type)
NewMemory(id) ==
    [id |-> id, content |-> ContentOf(id), memory_type |-> TypeOf(id),
     importance |-> DefaultImportance(TypeOf(id)), forgotten |-> FALSE]

\* the Memory values a caller passes for id: a fresh one, or a copy whose
\* forgotten flag is set
MemoryInputs(id) == {[NewMemory(id) EXCEPT !.forgotten = f] : f \in BOOLEAN}

RowOf(m) ==
    [content |-> m.content, memory_type |-> m.memory_type,
     importance |-> m.importance, forgotten |-> m.forgotten]

HasRow(mems, id) == mems[id] # NoRow

\* the memories table has one row per id: an INSERT of a stored id fails
InsertConflicts(mems, id) == HasRow(mems, id)

\* MemoryStore::save: INSERT INTO memories
SaveRows(mems, m) ==
    IF InsertConflicts(mems, m.id) THEN mems
    ELSE [mems EXCEPT ![m.id] = RowOf(m)]

\* MemoryStore::update: UPDATE memories SET ... WHERE id = ?
UpdateRows(mems, m) ==
    IF HasRow(mems, m.id) THEN [mems EXCEPT ![m.id] = RowOf(m)] ELSE mems

\* MemoryStore::forget / restore: UPDATE ... WHERE id = ? AND forgotten = (NOT f)
FlagAffected(mems, id, f) == HasRow(mems, id) /\ mems[id].forgotten # f

SetForgotten(mems, id, f) ==
    IF FlagAffected(mems, id, f) THEN [mems EXCEPT ![id].forgotten = f] ELSE mems

\* a delete of the associations that start at id only
DeleteEdgesFrom(assocs, id) == {a \in assocs : a.source_id # id}

\* DELETE FROM associations WHERE source_id = ? OR target_id = ?
DeleteEdgesOf(assocs, id) ==
    {a \in assocs : a.source_id # id /\ a.target_id # id}

\* DELETE FROM memories WHERE id = ?
DeleteRow(mems, id) == [mems EXCEPT ![id] = NoRow]

EdgeIds == 1..MaxEdges
UsedEdgeIds(assocs) == {a.id : a \in assocs}
FreeEdgeIds(assocs) == EdgeIds \ UsedEdgeIds(assocs)

\* Association::new: a fresh uuid
NewAssociation(eid, src, tgt, rel, w) ==
    [id |-> eid, source_id |-> src, target_id |-> tgt,
     relation_type |-> rel, weight |-> w]

SameTriple(a, b) ==
    /\ a.source_id = b.source_id
    /\ a.target_id = b.target_id
    /\ a.relation_type = b.relation_type

\* an INSERT without the ON CONFLICT clause
InsertAssociationPlain(assocs, a) == assocs \cup {a}

\* MemoryStore::create_association:
\* INSERT ... ON CONFLICT(source_id, target_id, relation_type) DO UPDATE SET weight
UpsertAssociation(assocs, a) ==
    IF \E e \in assocs : SameTriple(e, a)
    THEN {IF SameTriple(e, a) THEN [e EXCEPT !.weight = a.weight] ELSE e : e \in assocs}
    ELSE assocs \cup {a}

\* no call is in progress
NoCall == [op |-> "none", id |-> 0, attached |-> FALSE, ttl |-> NoExpiry,
           pc |-> "idle", effects |-> <<>>]

\* episode ids
MaxEpisodes == 2
EpIds == 1..MaxEpisodes

\* no episode is current, no episode, link or summary row is stored
CortexNew ==
    /\ experiences = [e \in EpIds |-> NoRow]
    /\ expLinks = {}
    /\ current = NoRow
    /\ summaries = {}

\* MemorySearch::with_dir on an empty directory, an empty vector directory
IdxNew == index = {} /\ vectors = {} /\ matched = {} /\ call = NoCall

StoreNew ==
    /\ memories = [id \in MemIds |-> NoRow]
    /\ associations = {}
    /\ ret = "new"
    /\ IdxNew

StoreSave(m) ==
    /\ memories' = SaveRows(memories, m)
    /\ ret' = IF InsertConflicts(memories, m.id) THEN "err" ELSE "ok"
    /\ lastOp' = "other"
    /\ UNCHANGED <<cortexVars, call, associations, items, now, idxVars>>

StoreDelete(id) ==
    /\ associations' = DeleteEdgesOf(associations, id)
    /\ memories' = DeleteRow(memories, id)
    /\ ret' = "ok"
    /\ lastOp' = "other"
    /\ UNCHANGED <<cortexVars, call, items, now, idxVars>>

\* the uuid Association::new draws: the smallest unused id of the pool, and
\* an id outside the pool once the pool is used up
FreshEdgeId(assocs) ==
    IF FreeEdgeIds(assocs) = {} THEN MaxEdges + 1
    ELSE CHOOSE e \in FreeEdgeIds(assocs) : \A f \in FreeEdgeIds(assocs) : e <= f

TripleStored(assocs, src, tgt, rel) ==
    \E e \in assocs :
        e.source_id = src /\ e.target_id = tgt /\ e.relation_type = rel

\* MemoryStore::create_association; a new row needs an unused id of the pool
CreateAssociation(src, tgt, rel, w) ==
    /\ FreeEdgeIds(associations) # {} \/ TripleStored(associations, src, tgt, rel)
    /\ LET a == NewAssociation(FreshEdgeId(associations), src, tgt, rel, w)
       IN associations' = UpsertAssociation(associations, a)
    /\ ret' = "ok"
    /\ lastOp' = IF TripleStored(associations, src, tgt, rel)
                 THEN "assoc_update" ELSE "assoc_insert"
    /\ UNCHANGED <<cortexVars, call, memories, items, now, idxVars>>

InitStore == StoreNew /\ WmNew /\ CortexNew

NextStore ==
    \/ \E id \in MemIds : StoreSave(NewMemory(id))
    \/ \E id \in MemIds : StoreDelete(id)
    \/ \E src \in MemIds : \E tgt \in MemIds \ {src}, rel \in RelationTypes, w \in Weights :
          CreateAssociation(src, tgt, rel, w)

SpecStore == InitStore /\ [][NextStore]_vars

\* ------------------------------------------------------------------------
\* Graph traversal (src/src/store.rs, get_neighbors)
\* ------------------------------------------------------------------------
\* a path of two hops needs three memories
GraphIds == 1..(NumMems + 1)
Depths == 0..MaxDepth
\* exclude_ids: no id or one id
Excludes == {{}} \cup {{x} : x \in GraphIds}

RECURSIVE SetToSeq(_)
SetToSeq(S) ==
    IF S = {} THEN <<>>
    ELSE LET x == CHOOSE y \in S : \A z \in S : y.id <= z.id
         IN <<x>> \o SetToSeq(S \ {x})

\* MemoryStore::get_associations: the rows with source_id or target_id = node
GetAssociations(assocs, node) ==
    SetToSeq({a \in assocs : a.source_id = node \/ a.target_id = node})

\* a traversal that follows associations from source to target only
NeighborIdDirected(assoc, node) == assoc.target_id

\* the other end of an association of node
NeighborId(assoc, node) ==
    IF assoc.source_id = node THEN assoc.target_id ELSE assoc.source_id

\* the loop over the associations of one frontier node
RECURSIVE VisitAssocs(_, _, _)
VisitAssocs(st, node, rows) ==
    IF rows = <<>> THEN st
    ELSE LET assoc == Head(rows)
             nb == NeighborId(assoc, node)
             seen == nb \in st.visited
             st2 == [visited |-> st.visited \cup {nb},
                     next_frontier |-> IF seen THEN st.next_frontier
                                       ELSE Append(st.next_frontier, nb),
                     all_associations |-> Append(st.all_associations, assoc)]
         IN VisitAssocs(st2, node, Tail(rows))

\* the loop over the frontier
RECURSIVE VisitFrontier(_, _, _)
VisitFrontier(assocs, st, frontier) ==
    IF frontier = <<>> THEN st
    ELSE VisitFrontier(assocs,
                       VisitAssocs(st, Head(frontier), GetAssociations(assocs, Head(frontier))),
                       Tail(frontier))

\* for _ in 0..depth, leaving the loop when the frontier is empty
RECURSIVE Rounds(_, _, _, _)
Rounds(assocs, st, frontier, d) ==
    IF d = 0 \/ frontier = <<>> THEN st
    ELSE LET st2 == VisitFrontier(assocs, [st EXCEPT !.next_frontier = <<>>], frontier)
         IN Rounds(assocs, st2, st2.next_frontier, d - 1)

\* all_associations.retain(|a| seen.insert(a.id)): first row of each id
RECURSIVE RetainFirst(_, _)
RetainFirst(rows, seen) ==
    IF rows = <<>> THEN <<>>
    ELSE IF Head(rows).id \in seen THEN RetainFirst(Tail(rows), seen)
    ELSE <<Head(rows)>> \o RetainFirst(Tail(rows), seen \cup {Head(rows).id})

RECURSIVE IdsToSeq(_)
IdsToSeq(S) ==
    IF S = {} THEN <<>>
    ELSE LET x == CHOOSE y \in S : \A z \in S : y <= z
         IN <<x>> \o IdsToSeq(S \ {x})

LoadsLive(mems, id) == HasRow(mems, id) /\ ~mems[id].forgotten

\* MemoryStore::get_neighbors: the ids of the returned memories and the
\* returned associations
GetNeighbors(mems, assocs, memory_id, depth, exclude_ids) ==
    LET st0 == [visited |-> exclude_ids \cup {memory_id},
                next_frontier |-> <<>>,
                all_associations |-> <<>>]
        st == Rounds(assocs, st0, <<memory_id>>, depth)
        neighbor_ids == IdsToSeq({id \in st.visited :
                                     id \notin exclude_ids /\ id # memory_id})
    IN [neighbors |-> SelectSeq(neighbor_ids, LAMBDA id : LoadsLive(mems, id)),
        associations |-> RetainFirst(st.all_associations, {})]

GraphSave(id) ==
    /\ ~InsertConflicts(memories, id)
    /\ memories' = SaveRows(memories, NewMemory(id))
    /\ ret' = "ok"
    /\ UNCHANGED <<cortexVars, call, associations, lastOp, items, now, idxVars>>

GraphForget(id) ==
    /\ FlagAffected(memories, id, TRUE)
    /\ memories' = SetForgotten(memories, id, TRUE)
    /\ ret' = "ok"
    /\ UNCHANGED <<cortexVars, call, associations, lastOp, items, now, idxVars>>

GraphRestore(id) ==
    /\ FlagAffected(memories, id, FALSE)
    /\ memories' = SetForgotten(memories, id, FALSE)
    /\ ret' = "ok"
    /\ UNCHANGED <<cortexVars, call, associations, lastOp, items, now, idxVars>>

GraphAssociate(src, tgt) ==
    /\ FreeEdgeIds(associations) # {}
    /\ associations' = UpsertAssociation(associations,
           NewAssociation(FreshEdgeId(associations), src, tgt, "related_to", DefaultWeight))
    /\ ret' = "ok"
    /\ UNCHANGED <<cortexVars, call, memories, lastOp, items, now, idxVars>>

\* a store that holds the memories 1..NumMems; the last id is not saved yet
InitGraph ==
    /\ memories = [id \in GraphIds |->
                     IF id \in MemIds THEN RowOf(NewMemory(id)) ELSE NoRow]
    /\ associations = {}
    /\ ret = "ok"
    /\ IdxNew
    /\ WmNew
    /\ CortexNew

NextGraph ==
    \/ \E id \in GraphIds : GraphSave(id)
    \/ \E id \in GraphIds : GraphForget(id)
    \/ \E id \in GraphIds : GraphRestore(id)
    \/ \E src \in GraphIds : \E tgt \in GraphIds \ {src} : GraphAssociate(src, tgt)

SpecGraph == InitGraph /\ [][NextGraph]_vars

\* ------------------------------------------------------------------------
\* Search (src/src/search.rs, src/src/vector_search.rs, src/src/cortex.rs)
\* Scores are integers in hundredths.
\* ------------------------------------------------------------------------
NoFilter == "none"
Filters == {NoFilter} \cup MemoryTypes
Queries == (SUBSET Terms) \ {{}}
\* max_results / limit inputs
Ks == 1..NumMems

\* the orders in which equal scores come out of the index, of a directory
\* listing or of a hash map: a priority for every id
TieOrders ==
    {f \in [MemIds -> 1..NumMems] : \A a \in MemIds, b \in MemIds : f[a] = f[b] => a = b}

\* the two tie orders by id, ascending and descending
EndOrders == {[id \in MemIds |-> id], [id \in MemIds |-> NumMems + 1 - id]}

\* the ids of S by descending key, equal keys by tie order
RECURSIVE OrderSet(_, _, _)
OrderSet(S, key, tb) ==
    IF S = {} THEN <<>>
    ELSE LET x == CHOOSE y \in S : \A z \in S :
                      \/ key[y] > key[z]
                      \/ (key[y] = key[z] /\ tb[y] <= tb[z])
         IN <<x>> \o OrderSet(S \ {x}, key, tb)

\* Vec::sort_by with b.score.partial_cmp(&a.score): stable, descending
RECURSIVE InsertByScore(_, _)
InsertByScore(s, x) ==
    IF s = <<>> THEN <<x>>
    ELSE IF x.score > Head(s).score THEN <<x>> \o s
    ELSE <<Head(s)>> \o InsertByScore(Tail(s), x)

RECURSIVE SortByScore(_)
SortByScore(s) ==
    IF s = <<>> THEN <<>>
    ELSE InsertByScore(SortByScore(SubSeq(s, 1, Len(s) - 1)), s[Len(s)])

\* results that keep the ranks they came with
KeepRanks(s) == s

\* for (i, r) in results.iter_mut().enumerate() { r.rank = i + 1 }
WithRanks(s) == [i \in 1..Len(s) |-> [s[i] EXCEPT !.rank = i]]

\* the BM25 score of a document for a query: grows with the matched terms,
\* shrinks with the length of the document
Bm25(q, content) ==
    (Cardinality(q \cap content) * 120) \div (1 + Cardinality(content))

\* the parsed query matches a document that holds one of its terms; the
\* type filter is a Must clause on the indexed memory_type
DocMatches(id, q, filter) ==
    /\ q \cap ContentOf(id) # {}
    /\ filter = NoFilter \/ TypeOf(id) = filter

\* searcher.search(&final_query, &TopDocs::with_limit(max_results))
TopDocs(idx, q, filter, max_results, tb) ==
    Truncate(OrderSet({id \in idx : DocMatches(id, q, filter)},
                      [id \in MemIds |-> Bm25(q, ContentOf(id))], tb),
             max_results)

\* score *= 1 + importance * 0.5; score *= 1 + recency * 0.3, recency = 1
BoostedScore(score, importance) ==
    (score * (200 + importance) * 13) \div 2000

\* MemorySearch::search_fulltext
SearchFulltext(mems, idx, q, filter, max_results, tb) ==
    LET top == TopDocs(idx, q, filter, max_results, tb)
        kept == SelectSeq(top, LAMBDA id : LoadsLive(mems, id))
        results == [i \in 1..Len(kept) |->
                      [id |-> kept[i], memory |-> mems[kept[i]],
                       score |-> BoostedScore(Bm25(q, ContentOf(kept[i])),
                                              mems[kept[i]].importance),
                       rank |-> i]]
    IN WithRanks(SortByScore(results))

\* bm25 * 0.65 + importance * 0.20 + 0.15 / (1 + hours * 0.01), hours = 0
RecallScore(r) ==
    IF r.memory.forgotten THEN 0
    ELSE (r.score * 65) \div 100 + (r.memory.importance * 20) \div 100 + 15

\* MemoryCortex::recall
Recall(mems, idx, q, limit, tb) ==
    LET results == SearchFulltext(mems, idx, q, NoFilter, limit * 3, tb)
        rescored == [i \in 1..Len(results) |->
                       [results[i] EXCEPT !.score = RecallScore(results[i])]]
    IN WithRanks(Truncate(SortByScore(rescored), limit))

\* generate_embedding: one dimension per term, the count of the term in the
\* text (the zero vector for a text without tokens)
Embed(content) == [t \in Terms |-> IF t \in content THEN 1 ELSE 0]

RECURSIVE DotOver(_, _, _)
DotOver(a, b, dims) ==
    IF dims = {} THEN 0
    ELSE LET t == CHOOSE x \in dims : TRUE
         IN a[t] * b[t] + DotOver(a, b, dims \ {t})

\* the dot product of two embeddings
Dot(a, b) == DotOver(a, b, DOMAIN a)

\* cosine_similarity, squared and in hundredths (the components are not
\* negative, so the order of similarities is kept); 0 when one of the
\* vectors is the zero vector
Cosine(a, b) ==
    IF Dot(a, a) = 0 \/ Dot(b, b) = 0 THEN 0
    ELSE (Dot(a, b) * Dot(a, b) * 100) \div (Dot(a, a) * Dot(b, b))

\* VectorIndex::search / FileVectorBackend::search
\* the embeddings of the texts, and the similarity of each pair of them
Embeddings == {Embed(c) : c \in SUBSET Terms}
Similarity == [a \in Embeddings |-> [b \in Embeddings |-> Cosine(a, b)]]

\* the vector stored for a memory: the embedding of its content
StoredVector == [id \in MemIds |-> Embed(ContentOf(id))]

VectorSearch(vecs, qvec, limit, tb) ==
    LET sim == [id \in MemIds |-> Similarity[qvec][StoredVector[id]]]
        order == Truncate(OrderSet(vecs, sim, tb), limit)
    IN [i \in 1..Len(order) |-> [id |-> order[i], score |-> sim[order[i]]]]

\* ------------------------------------------------------------------------
\* Hybrid retrieval (src/src/hybrid_retrieval.rs, src/src/lib.rs)
\* ------------------------------------------------------------------------
\* HybridSearchConfig::default
Bm25Limit == 25
VectorLimit == 25
NeighborDepth == 1
SeedLimit == 10
WeightBm25 == 35
WeightVector == 35
WeightImportance == 10
WeightRecency == 20
WeightGraph == 15

\* RelationType::score_multiplier
ScoreMultiplier(rel) == IF rel = "updates" THEN 150 ELSE 100

TypeOk(mems, id, filter) == filter = NoFilter \/ mems[id].memory_type = filter

\* normalize_scores: min-max, 1.0 for every key when all values are equal
Normalize(S, val) ==
    LET lo == CHOOSE v \in {val[x] : x \in S} : \A y \in S : v <= val[y]
        hi == CHOOSE v \in {val[x] : x \in S} : \A y \in S : v >= val[y]
    IN [x \in S |-> IF hi = lo THEN 100 ELSE ((val[x] - lo) * 100) \div (hi - lo)]

\* rel_mult.get(n): the multiplier inserted last for n, 1.0 when there is none
RelMult(assocSeq, seed, n) ==
    LET hits == {i \in 1..Len(assocSeq) : NeighborId(assocSeq[i], seed) = n}
    IN IF hits = {} THEN 100
       ELSE ScoreMultiplier(assocSeq[CHOOSE i \in hits : \A j \in hits : j <= i].relation_type)

\* the value of the one element of a singleton set
TheOne(S) == CHOOSE x \in S : TRUE

\* the body of the loop over the seeds, for the neighbors nb of one seed:
\* every neighbor takes its graph score from the first seed that reaches it
ExpandSeed(mems, seed, nb, filter, st) ==
    LET fresh == {n \in SeqRange(nb.neighbors) :
                     TypeOk(mems, n, filter) /\ n \notin st.expanded}
    IN [expanded |-> st.expanded \cup fresh,
        graph_raw |-> [n \in DOMAIN st.graph_raw |->
            IF n \in fresh
            THEN st.graph_raw[n]
                 + (seed.score * RelMult(nb.associations, seed.id, n)) \div 100
            ELSE st.graph_raw[n]]]

\* the loop over the seeds
RECURSIVE ExpandSeeds(_, _, _, _, _)
ExpandSeeds(mems, assocs, seeds, filter, st) ==
    IF seeds = <<>> THEN st
    ELSE ExpandSeeds(mems, assocs, Tail(seeds), filter,
             TheOne({ExpandSeed(mems, Head(seeds), nb, filter, st) :
                       nb \in {GetNeighbors(mems, assocs, Head(seeds).id, NeighborDepth, {})}}))

\* the scoring loop over parts, the sort, the truncation and the ranks
RankParts(mems, bmIds, bmScore, vecIds, vecScore, st, max_results, filter, tb) ==
    LET parts == bmIds \cup vecIds \cup st.expanded
        bmNorm == Normalize(bmIds, bmScore)
        vecNorm == Normalize(vecIds, vecScore)
        graphIds == {id \in parts : st.graph_raw[id] > 0}
        graphNorm == Normalize(graphIds, st.graph_raw)
        order == OrderSet(parts, [id \in MemIds |-> 0], tb)
        kept == SelectSeq(order, LAMBDA id : LoadsLive(mems, id) /\ TypeOk(mems, id, filter))
        scored == [i \in 1..Len(kept) |->
            LET id == kept[i]
            IN [id |-> id, memory |-> mems[id],
                score |-> WeightBm25 * (IF id \in bmIds THEN bmNorm[id] ELSE 0)
                          + WeightVector * (IF id \in vecIds THEN vecNorm[id] ELSE 0)
                          + WeightImportance * mems[id].importance
                          + WeightRecency * 100
                          + WeightGraph * (IF id \in graphIds THEN graphNorm[id] ELSE 0),
                rank |-> 0]]
    IN WithRanks(Truncate(SortByScore(scored), max_results))

\* hybrid_rank, given the full-text results and the vector hits
HybridRank(mems, assocs, bm25, hits, max_results, filter, tb) ==
    LET bmKept == SelectSeq(Truncate(bm25, Bm25Limit),
                            LAMBDA r : ~r.memory.forgotten /\ TypeOk(mems, r.id, filter))
        bmIds == {bmKept[i].id : i \in 1..Len(bmKept)}
        bmScore == [id \in MemIds |->
                      IF id \in bmIds
                      THEN (CHOOSE r \in SeqRange(bmKept) : r.id = id).score ELSE 0]
        vecIds == {hits[i].id : i \in 1..Len(hits)}
        vecScore == [id \in MemIds |->
                       IF id \in vecIds
                       THEN (CHOOSE h \in SeqRange(hits) : h.id = id).score ELSE 0]
        bmSeeds == OrderSet(bmIds, bmScore, tb)
        vecSeeds == OrderSet(vecIds, vecScore, tb)
        seeds == Truncate(SortByScore(
                     [i \in 1..Len(bmSeeds) |-> [id |-> bmSeeds[i], score |-> bmScore[bmSeeds[i]]]]
                  \o [i \in 1..Len(vecSeeds) |-> [id |-> vecSeeds[i], score |-> vecScore[vecSeeds[i]]]]),
                  SeedLimit)
    IN TheOne({RankParts(mems, bi, bs, vi, vs, st, max_results, filter, tb) :
                 bi \in {bmIds}, bs \in {bmScore}, vi \in {vecIds}, vs \in {vecScore},
                 st \in {ExpandSeeds(mems, assocs, seeds, filter,
                                     [expanded |-> {}, graph_raw |-> [n \in MemIds |-> 0]])}})

\* MemorySystem::hybrid_search with a vector backend attached
HybridSearch(mems, assocs, idx, vecs, q, max_results, filter, tb) ==
    TheOne({HybridRank(mems, assocs, bm25, hits, max_results, filter, tb) :
              bm25 \in {SearchFulltext(mems, idx, q, filter, Max2(Bm25Limit, max_results), tb)},
              hits \in {VectorSearch(vecs, Embed(q), VectorLimit, tb)}})

\* ------------------------------------------------------------------------
\* MemorySystem with a vector backend attached (src/src/lib.rs)
\* ------------------------------------------------------------------------
\* MemorySystem::search with SearchConfig::default: more results than there
\* are memories
DefaultMaxResults == 10

\* the ids that search(content of id) returns, whatever the tie order
FoundByOwnContent(mems, idx, id) ==
    \A tb \in EndOrders :
        \E r \in SeqRange(SearchFulltext(mems, idx, ContentOf(id), NoFilter,
                                         DefaultMaxResults, tb)) : r.id = id

\* a save that leaves out index_memory
SysSaveNoIndex(m) ==
    /\ memories' = SaveRows(memories, m)
    /\ vectors' = IF InsertConflicts(memories, m.id) THEN vectors ELSE vectors \cup {m.id}
    /\ lastOp' = "other"
    /\ UNCHANGED <<cortexVars, call, associations, index, matched, ret, items, now>>

\* MemorySystem::save: store.save, index_memory, vector upsert; an error of
\* store.save returns before the index is written
SysSave(m) ==
    /\ memories' = SaveRows(memories, m)
    /\ index' = IF InsertConflicts(memories, m.id) THEN index ELSE index \cup {m.id}
    /\ vectors' = IF InsertConflicts(memories, m.id) THEN vectors ELSE vectors \cup {m.id}
    /\ lastOp' = "other"
    /\ UNCHANGED <<cortexVars, call, associations, matched, ret, items, now>>

\* MemorySystem::update: store.update, index_memory, vector upsert
SysUpdate(m) ==
    /\ memories' = UpdateRows(memories, m)
    /\ index' = index \cup {m.id}
    /\ vectors' = vectors \cup {m.id}
    /\ matched' = IF HasRow(memories, m.id) /\ ~m.forgotten THEN matched \ {m.id} ELSE matched
    /\ lastOp' = "other"
    /\ UNCHANGED <<cortexVars, call, associations, ret, items, now>>

\* MemorySystem::delete: store.delete, delete_memory, vector delete
SysDelete(id) ==
    /\ associations' = DeleteEdgesOf(associations, id)
    /\ memories' = DeleteRow(memories, id)
    /\ index' = index \ {id}
    /\ vectors' = vectors \ {id}
    /\ matched' = matched \ {id}
    /\ lastOp' = IF DeleteEdgesOf(associations, id) # associations
                 THEN "delete_cascade" ELSE "other"
    /\ UNCHANGED <<cortexVars, call, ret, items, now>>

\* MemorySystem::forget
SysForget(id) ==
    /\ memories' = SetForgotten(memories, id, TRUE)
    /\ matched' = IF FlagAffected(memories, id, TRUE) /\ FoundByOwnContent(memories, index, id)
                  THEN matched \cup {id} ELSE matched
    /\ lastOp' = "other"
    /\ UNCHANGED <<cortexVars, call, associations, index, vectors, ret, items, now>>

\* MemorySystem::restore
SysRestore(id) ==
    /\ memories' = SetForgotten(memories, id, FALSE)
    /\ matched' = matched \ {id}
    /\ lastOp' = "other"
    /\ UNCHANGED <<cortexVars, call, associations, index, vectors, ret, items, now>>

\* MemorySystem::associate, at most MaxLinks associations
SysAssociate(src, tgt) ==
    /\ Cardinality(associations) < MaxLinks
    /\ associations' = UpsertAssociation(associations,
           NewAssociation(FreshEdgeId(associations), src, tgt, "related_to", DefaultWeight))
    /\ lastOp' = "other"
    /\ UNCHANGED <<cortexVars, call, memories, idxVars, ret, items, now>>

\* MemorySearch::reindex_all, which MemorySystem::new and MemoryCortex::new
\* run when the data directory is opened again: the index is cleared and
\* holds the memories get_by_type returns, those with forgotten = 0
SysReindex ==
    /\ index' = {id \in MemIds : LoadsLive(memories, id)}
    /\ lastOp' = "other"
    /\ UNCHANGED <<cortexVars, call, memories, associations, vectors, matched, ret, items, now>>

InitSys == StoreNew /\ WmNew /\ CortexNew

NextSys ==
    \/ \E id \in MemIds : \E m \in MemoryInputs(id) : SysSave(m)
    \/ \E id \in MemIds : \E m \in MemoryInputs(id) : SysUpdate(m)
    \/ \E id \in MemIds : SysDelete(id)
    \/ \E id \in MemIds : SysForget(id)
    \/ \E id \in MemIds : SysRestore(id)
    \/ \E src \in MemIds : \E tgt \in {t \in MemIds : t > src} : SysAssociate(src, tgt)
    \/ SysReindex

SpecSys == InitSys /\ [][NextSys]_vars

Remember(id, ttl) ==
    /\ items' = WmRemember(items, id, ttl)
    /\ lastOp' = IF WmTrims(items, id, ttl) THEN "remember_trim" ELSE "remember"
    /\ UNCHANGED <<cortexVars, call, now, storeVars>>

Focus(id) ==
    /\ items' = WmFocus(items, id)
    /\ lastOp' = "other"
    /\ UNCHANGED <<cortexVars, call, now, storeVars>>

Pin(id) ==
    /\ items' = WmSetPinned(items, id, TRUE)
    /\ lastOp' = "other"
    /\ UNCHANGED <<cortexVars, call, now, storeVars>>

Unpin(id) ==
    /\ items' = WmSetPinned(items, id, FALSE)
    /\ lastOp' = "other"
    /\ UNCHANGED <<cortexVars, call, now, storeVars>>

Decay ==
    /\ items' = WmDecay(items)
    /\ lastOp' = "decay"
    /\ UNCHANGED <<cortexVars, call, now, storeVars>>

Clear ==
    /\ items' = <<>>
    /\ lastOp' = "other"
    /\ UNCHANGED <<cortexVars, call, now, storeVars>>

Tick ==
    /\ now < MaxTime
    /\ now' = now + 1
    /\ lastOp' = "other"
    /\ UNCHANGED <<cortexVars, call, items, storeVars>>

InitWM == WmNew /\ StoreNew /\ CortexNew

NextWM ==
    \/ \E id \in Ids, ttl \in TtlChoices : Remember(id, ttl)
    \/ \E id \in Ids : Focus(id)
    \/ \E id \in Ids : Pin(id)
    \/ \E id \in Ids : Unpin(id)
    \/ Decay
    \/ Clear
    \/ Tick

SpecWM == InitWM /\ [][NextWM]_vars

\* ------------------------------------------------------------------------
\* The write paths, one action per awaited step (src/src/cortex.rs,
\* src/src/lib.rs)
\* ------------------------------------------------------------------------
WriteOps == {"remember", "remember_with_ttl", "save"}

\* the step that follows store.save in each write path
AfterStore(c) ==
    IF c.op = "save" THEN "index"
    ELSE IF c.op = "remember" THEN (IF c.attached THEN "vector" ELSE "wm")
    ELSE "wm"

\* the step that follows index_memory in MemorySystem::save
AfterIndex(c) == IF c.attached THEN "vector" ELSE "ok"

\* the step that follows the vector write
AfterVector(c) == IF c.op = "remember" THEN "wm" ELSE "ok"

\* a caller starts remember(m), remember_with_ttl(m, ttl) or save(m)
WriteCall(op, id, attached, ttl) ==
    /\ call.pc = "idle"
    /\ call' = [op |-> op, id |-> id, attached |-> attached, ttl |-> ttl,
                pc |-> "store", effects |-> <<>>]
    /\ lastOp' = "other"
    /\ UNCHANGED <<cortexVars, memories, associations, ret, index, vectors, matched, items, now>>

\* self.store.save(memory).await?
WriteStore ==
    /\ call.pc = "store"
    /\ memories' = SaveRows(memories, NewMemory(call.id))
    /\ call' = IF InsertConflicts(memories, call.id)
               THEN [call EXCEPT !.pc = "err"]
               ELSE [call EXCEPT !.pc = AfterStore(call),
                                 !.effects = Append(@, "store")]
    /\ lastOp' = "other"
    /\ UNCHANGED <<cortexVars, associations, ret, index, vectors, matched, items, now>>

\* self.search.index_memory(memory)?
WriteIndex ==
    /\ call.pc = "index"
    /\ index' = index \cup {call.id}
    /\ call' = [call EXCEPT !.pc = AfterIndex(call), !.effects = Append(@, "index")]
    /\ lastOp' = "other"
    /\ UNCHANGED <<cortexVars, memories, associations, ret, vectors, matched, items, now>>

\* vector_index.store(&memory.id, embedding) / vector.upsert(&memory.id, v, None)
WriteVector ==
    /\ call.pc = "vector"
    /\ vectors' = vectors \cup {call.id}
    /\ call' = [call EXCEPT !.pc = AfterVector(call), !.effects = Append(@, "vector")]
    /\ lastOp' = "other"
    /\ UNCHANGED <<cortexVars, memories, associations, ret, index, matched, items, now>>

\* wm.remember(memory, ttl)
WriteWorkingMemory ==
    /\ call.pc = "wm"
    /\ items' = WmRemember(items, call.id, call.ttl)
    /\ call' = [call EXCEPT !.pc = "ok", !.effects = Append(@, "wm")]
    /\ lastOp' = "other"
    /\ UNCHANGED <<cortexVars, memories, associations, ret, index, vectors, matched, now>>

\* Ok(()) or the error of store.save reaches the caller
WriteReturn ==
    /\ call.pc \in {"ok", "err"}
    /\ call' = NoCall
    /\ ret' = call.pc
    /\ lastOp' = "other"
    /\ UNCHANGED <<cortexVars, memories, associations, index, vectors, matched, items, now>>

\* MemorySystem::delete between two writes
WriteDelete(id) ==
    /\ call.pc = "idle"
    /\ HasRow(memories, id)
    /\ associations' = DeleteEdgesOf(associations, id)
    /\ memories' = DeleteRow(memories, id)
    /\ index' = index \ {id}
    /\ vectors' = vectors \ {id}
    /\ lastOp' = "other"
    /\ UNCHANGED <<cortexVars, call, matched, ret, items, now>>

InitWrite == StoreNew /\ WmNew /\ CortexNew

NextWrite ==
    \/ \E id \in MemIds, attached \in BOOLEAN : WriteCall("remember", id, attached, NoExpiry)
    \/ \E id \in MemIds, ttl \in TtlChoices \ {NoExpiry} :
           WriteCall("remember_with_ttl", id, TRUE, ttl)
    \/ \E id \in MemIds, attached \in BOOLEAN : WriteCall("save", id, attached, NoExpiry)
    \/ WriteStore
    \/ WriteIndex
    \/ WriteVector
    \/ WriteWorkingMemory
    \/ WriteReturn
    \/ \E id \in MemIds : WriteDelete(id)

SpecWrite == InitWrite /\ [][NextWrite]_vars

\* ------------------------------------------------------------------------
\* Episodes (src/src/cortex.rs, src/src/store.rs)
\* ------------------------------------------------------------------------
\* ended_at = None
NotEnded == -1

\* the experience_memories table holds at most MaxLinkRows rows
MaxLinkRows == 2

\* Experience::new: importance 0.5, in ten-thousandths
InitialEpisodeImportance == 5000

\* ImportanceWeights::default, in hundredths
WeightBase == 30
WeightRecencyFactor == 20
WeightAccess == 15
WeightTypeBonus == 15
WeightConfidence == 10

\* MemoryConfidence::new: score 0.5
DefaultConfidence == 50

\* the type bonus of ImportanceCalculator::calculate_with_weights
TypeBonus(t) ==
    IF t = "identity" THEN 50
    ELSE IF t = "goal" THEN 40
    ELSE IF t = "decision" THEN 30
    ELSE IF t \in {"preference", "todo"} THEN 20
    ELSE IF t \in {"fact", "summary"} THEN 10
    ELSE 0

\* ImportanceCalculator::calculate of a stored memory that was accessed
\* within the hour (recency e^0 = 1) and never read (ln(1) = 0), in
\* ten-thousandths
DynamicImportance(row) ==
    Max2(0, Min2(10000,
        row.importance * WeightBase + 100 * WeightRecencyFactor + 0 * WeightAccess
            + TypeBonus(row.memory_type) * WeightTypeBonus
            + DefaultConfidence * WeightConfidence))

\* the uuid Experience::new draws
FreeEpIds == {e \in EpIds : experiences[e] = NoRow}
FreshEpId == CHOOSE e \in FreeEpIds : \A f \in FreeEpIds : e <= f

\* Experience::new
NewExperience(id) ==
    [id |-> id, memory_ids |-> <<>>, ended_at |-> NotEnded,
     importance |-> InitialEpisodeImportance]

\* the columns of the experiences row that end_episode changes
ExperienceRow(ep) ==
    [ended_at |-> ep.ended_at, importance |-> ep.importance]

\* Experience::add_memory
AddMemory(ep, memory_id) ==
    IF memory_id \in SeqRange(ep.memory_ids) THEN ep
    ELSE [ep EXCEPT !.memory_ids = Append(@, memory_id)]

\* the experience_memories table keys on (experience_id, memory_id,
\* added_at): INSERT OR IGNORE drops a row only when all three are equal
AddMemoryToExperience(links, experience_id, memory_id) ==
    links \cup {[experience_id |-> experience_id, memory_id |-> memory_id,
                 added_at |-> now]}

RECURSIVE SumImportance(_, _)
SumImportance(mems, ids) ==
    IF ids = <<>> THEN 0
    ELSE DynamicImportance(mems[Head(ids)]) + SumImportance(mems, Tail(ids))

\* the memories of the episode that store.load returns
Loaded(mems, ids) == SelectSeq(ids, LAMBDA id : HasRow(mems, id))

\* a close that adds the importances up without dividing
EndedNoMean(mems, ep) ==
    LET loaded == Loaded(mems, ep.memory_ids)
    IN [ep EXCEPT !.ended_at = now,
                  !.importance = IF Len(loaded) > 0 THEN SumImportance(mems, loaded) ELSE @]

\* end_episode on the open episode: ep.end() and the recomputed importance
Ended(mems, ep) ==
    LET loaded == Loaded(mems, ep.memory_ids)
    IN [ep EXCEPT !.ended_at = now,
                  !.importance = IF Len(loaded) > 0
                                 THEN SumImportance(mems, loaded) \div Len(loaded)
                                 ELSE @]

\* MemoryCortex::start_episode
StartEpisode ==
    /\ FreeEpIds # {}
    /\ experiences' = [experiences EXCEPT ![FreshEpId] = ExperienceRow(NewExperience(FreshEpId))]
    /\ current' = NewExperience(FreshEpId)
    /\ ret' = "ok"
    /\ lastOp' = "other"
    /\ UNCHANGED <<expLinks, summaries, memories, associations, idxVars, call, items, now>>

\* MemoryCortex::end_episode
EndEpisode ==
    /\ IF current # NoRow
       THEN /\ experiences' = [experiences EXCEPT ![current.id] =
                                  ExperienceRow(Ended(memories, current))]
            /\ ret' = "some"
       ELSE /\ experiences' = experiences
            /\ ret' = "none"
    /\ current' = NoRow
    /\ lastOp' = "end_episode"
    /\ UNCHANGED <<expLinks, summaries, memories, associations, idxVars, call, items, now>>

\* MemoryCortex::remember(Memory with id): store.save, vector_index.store,
\* wm.remember, and the link to the current episode; an error of store.save
\* returns before anything else is written
EpisodeRemember(id) ==
    /\ Cardinality(expLinks) < MaxLinkRows
    /\ memories' = SaveRows(memories, NewMemory(id))
    /\ IF InsertConflicts(memories, id)
       THEN /\ ret' = "err"
            /\ UNCHANGED <<vectors, items, current, expLinks>>
       ELSE /\ ret' = "ok"
            /\ vectors' = vectors \cup {id}
            /\ items' = WmRemember(items, id, NoExpiry)
            /\ current' = IF current # NoRow THEN AddMemory(current, id) ELSE current
            /\ expLinks' = IF current # NoRow
                           THEN AddMemoryToExperience(expLinks, current.id, id)
                           ELSE expLinks
    /\ lastOp' = "remember"
    /\ UNCHANGED <<experiences, summaries, associations, index, matched, call, now>>

\* the memories of the current episode
LinkedToCurrent == IF current = NoRow THEN {} ELSE SeqRange(current.memory_ids)

\* MemorySystem::delete, on the same data directory, of a memory of the
\* current episode
EpisodeDelete(id) == id \in LinkedToCurrent /\ SysDelete(id)

InitEpisode == StoreNew /\ WmNew /\ CortexNew

NextEpisode ==
    \/ StartEpisode
    \/ EndEpisode
    \/ \E id \in MemIds : EpisodeRemember(id)
    \/ \E id \in MemIds : EpisodeDelete(id)

SpecEpisode == InitEpisode /\ [][NextEpisode]_vars

\* the same operations with a clock that advances between them
NextEpisodeClock ==
    \/ StartEpisode
    \/ EndEpisode
    \/ \E id \in MemIds : EpisodeRemember(id)
    \/ \E id \in MemIds : EpisodeDelete(id)
    \/ Tick

SpecEpisodeClock == InitEpisode /\ [][NextEpisodeClock]_vars

\* ------------------------------------------------------------------------
\* Consolidation (src/src/cortex.rs, src/src/store.rs)
\* ------------------------------------------------------------------------
\* the ids of the store: the memories a caller saves, and one more id for a
\* summary memory
ConsIds == 1..(NumMems + 1)

\* ages in days: created today, created forty days ago
Ages == {0, 40}

\* stored importances, in hundredths
ImportanceLevels == {5, 20, 60}

AgedTypes == {"identity", "preference"}

\* a Memory built by Memory::new(..).with_importance(importance) whose
\* created_at, updated_at and last_accessed_at lie age days back
AgedMemory(id, t, importance, age) ==
    [id |-> id, content |-> ContentOf(id), memory_type |-> t, importance |-> importance,
     forgotten |-> FALSE, age |-> age, updated_age |-> age, access_age |-> age,
     original_ids |-> {}]

AgedInputs(id) ==
    {AgedMemory(id, t, imp, age) : t \in AgedTypes, imp \in ImportanceLevels, age \in Ages}

AgedRow(m) ==
    [content |-> m.content, memory_type |-> m.memory_type, importance |-> m.importance,
     forgotten |-> m.forgotten, age |-> m.age, updated_age |-> m.updated_age,
     access_age |-> m.access_age, original_ids |-> m.original_ids]

\* MemoryStore::save of a memory with its timestamps
SaveAged(mems, m) ==
    IF InsertConflicts(mems, m.id) THEN mems ELSE [mems EXCEPT ![m.id] = AgedRow(m)]

\* query_with_filter("created_at < cutoff date AND importance < threshold
\* AND forgotten = 0"): the cutoff is a date, so a row qualifies when it was
\* created on an earlier day than the day max_age_days back
Candidates(mems, threshold, max_age_days) ==
    {id \in DOMAIN mems :
        /\ HasRow(mems, id)
        /\ ~mems[id].forgotten
        /\ mems[id].age > max_age_days
        /\ mems[id].importance < threshold}

\* a grouping that also keeps the groups of a single memory
GroupsOfAny(mems, cands) ==
    {G \in {{id \in cands : mems[id].memory_type = t} :
               t \in {mems[id].memory_type : id \in cands}} :
        Cardinality(G) >= 1}

\* by_type, without the groups the loop skips (memories.len() < 2)
Groups(mems, cands) ==
    {G \in {{id \in cands : mems[id].memory_type = t} :
               t \in {mems[id].memory_type : id \in cands}} :
        Cardinality(G) >= 2}

\* Memory::new(summary_text, Summary).with_importance(0.5).with_metadata(
\* original_ids): the text joins the contents of the group
SummaryMemoryRow(mems, G) ==
    [content |-> UNION {mems[id].content : id \in G}, memory_type |-> "summary",
     importance |-> 50, forgotten |-> FALSE, age |-> 0, updated_age |-> 0,
     access_age |-> 0, original_ids |-> G]

\* MemorySummary::new(summary_text, original_ids, mem_type)
NewSummary(mems, G) ==
    [original_memory_ids |-> G,
     memory_type |-> mems[CHOOSE id \in G : TRUE].memory_type]

\* the uuid Memory::new draws for a summary memory
FreeConsIds(mems) == {id \in ConsIds \ MemIds : ~HasRow(mems, id)}
FreshConsId(mems) == CHOOSE id \in FreeConsIds(mems) : \A o \in FreeConsIds(mems) : id <= o

\* a caller saves a memory
AgedSave(m) ==
    /\ call.pc = "idle"
    /\ memories' = SaveAged(memories, m)
    /\ lastOp' = "other"
    /\ UNCHANGED <<cortexVars, call, associations, ret, idxVars, items, now>>

\* MemoryCortex::consolidate up to the loop over the groups
ConsolidateCall(threshold, max_age_days) ==
    /\ call.pc = "idle"
    /\ LET groups == Groups(memories, Candidates(memories, threshold, max_age_days))
       IN /\ Cardinality(groups) <= Cardinality(FreeConsIds(memories))
          /\ call' = [op |-> "consolidate", id |-> 0, attached |-> FALSE, ttl |-> NoExpiry,
                      pc |-> IF groups = {} THEN "ok" ELSE "save_memory",
                      effects |-> <<>>, groups |-> groups, group |-> {},
                      pending |-> {}, before |-> memories,
                      threshold |-> threshold, max_age_days |-> max_age_days]
    /\ lastOp' = "other"
    /\ UNCHANGED <<cortexVars, memories, associations, ret, idxVars, items, now>>

\* the loop takes the next group (a HashMap, in any order) and saves its
\* summary memory: self.store.save(&summary_memory).await?
ConsolidateSaveMemory(G) ==
    /\ call.op = "consolidate" /\ call.pc = "save_memory"
    /\ G \in call.groups
    /\ memories' = [memories EXCEPT ![FreshConsId(memories)] = SummaryMemoryRow(memories, G)]
    /\ call' = [call EXCEPT !.id = FreshConsId(memories), !.group = G,
                            !.groups = @ \ {G}, !.pc = "save_summary"]
    /\ lastOp' = "other"
    /\ UNCHANGED <<cortexVars, associations, ret, idxVars, items, now>>

\* self.store.save_summary(&summary).await?
ConsolidateSaveSummary ==
    /\ call.op = "consolidate" /\ call.pc = "save_summary"
    /\ summaries' = summaries \cup {NewSummary(memories, call.group)}
    /\ call' = [call EXCEPT !.pending = call.group, !.pc = "forget"]
    /\ lastOp' = "other"
    /\ UNCHANGED <<experiences, expLinks, current, memories, associations, ret, idxVars,
                   items, now>>

\* self.store.forget(mem_id).await? for the next original of the group
ConsolidateForget(id) ==
    /\ call.op = "consolidate" /\ call.pc = "forget"
    /\ id \in call.pending
    /\ memories' = SetForgotten(memories, id, TRUE)
    /\ call' = [call EXCEPT !.pending = @ \ {id},
                            !.pc = IF call.pending # {id} THEN "forget"
                                   ELSE IF call.groups = {} THEN "ok" ELSE "save_memory"]
    /\ lastOp' = "other"
    /\ UNCHANGED <<cortexVars, associations, ret, idxVars, items, now>>

\* the awaited store call returns a storage error and `?` leaves consolidate
ConsolidateFail ==
    /\ call.op = "consolidate" /\ call.pc \in {"save_memory", "save_summary", "forget"}
    /\ call' = [call EXCEPT !.pc = "err"]
    /\ lastOp' = "other"
    /\ UNCHANGED <<cortexVars, memories, associations, ret, idxVars, items, now>>

\* Ok(consolidated_count) or the error reaches the caller
ConsolidateReturn ==
    /\ call.op = "consolidate" /\ call.pc \in {"ok", "err"}
    /\ call' = NoCall
    /\ ret' = call.pc
    /\ lastOp' = IF call.pc = "ok" /\ call.before # memories THEN "consolidated" ELSE "other"
    /\ UNCHANGED <<cortexVars, memories, associations, idxVars, items, now>>

\* consolidate(threshold, max_age_days) arguments, in hundredths and days
Thresholds == {30}
MaxAges == {30}

InitConsolidate ==
    /\ memories = [id \in ConsIds |-> NoRow]
    /\ associations = {}
    /\ ret = "new"
    /\ IdxNew
    /\ WmNew
    /\ CortexNew

NextConsolidate ==
    \/ \E id \in MemIds : \E m \in AgedInputs(id) : AgedSave(m)
    \/ \E threshold \in Thresholds, max_age_days \in MaxAges :
           ConsolidateCall(threshold, max_age_days)
    \/ \E G \in SUBSET MemIds : ConsolidateSaveMemory(G)
    \/ ConsolidateSaveSummary
    \/ \E id \in MemIds : ConsolidateForget(id)
    \/ ConsolidateFail
    \/ ConsolidateReturn

SpecConsolidate == InitConsolidate /\ [][NextConsolidate]_vars

\* ------------------------------------------------------------------------
\* Maintenance (src/src/maintenance.rs, src/src/store.rs)
\* ------------------------------------------------------------------------
\* MaintenanceConfig::default, importances in hundredths, ages in days
PruneThreshold == 10
DecayRate == 5
MinAgeDays == 30
ConsolidationAgeDays == 30
ConsolidationThreshold == 30

\* the switches of a MaintenanceConfig
MaintenanceConfigs ==
    [enable_decay : BOOLEAN, enable_pruning : BOOLEAN, enable_consolidation : BOOLEAN]

\* a can_decay that lets every type decay
CanDecayAny(t) == TRUE

\* MemoryType::can_decay
CanDecay(t) == t # "identity"

\* age_decay of apply_decay, in hundredths
AgeDecay(days_old) == 100 - Min2(days_old * DecayRate, 50)

\* access_boost of apply_decay, in hundredths
AccessBoost(days_since_access) ==
    IF days_since_access < 7 THEN 110
    ELSE IF days_since_access > 30 THEN 90
    ELSE 100

\* new_importance of apply_decay, in millionths
NewImportance(row) == row.importance * AgeDecay(row.updated_age) * AccessBoost(row.access_age)

\* the change is significant: |new_importance - importance| > 0.01
Significant(row) ==
    \/ NewImportance(row) - row.importance * 10000 > 10000
    \/ row.importance * 10000 - NewImportance(row) > 10000

\* the row apply_decay writes back: the clamped importance, in hundredths
\* rounded down, and updated_at = now
DecayedRow(row) ==
    [row EXCEPT !.importance = Max2(0, Min2(100, NewImportance(row) \div 10000)),
                !.updated_age = 0]

\* apply_decay: the non-forgotten rows (get_by_type) of the types that decay
ApplyDecay(mems) ==
    [id \in DOMAIN mems |->
        IF /\ HasRow(mems, id)
           /\ ~mems[id].forgotten
           /\ CanDecay(mems[id].memory_type)
           /\ Significant(mems[id])
        THEN DecayedRow(mems[id])
        ELSE mems[id]]

\* get_pruning_candidates(prune_threshold, min_age_days)
PruningCandidates(mems) ==
    {id \in DOMAIN mems :
        /\ HasRow(mems, id)
        /\ mems[id].importance < PruneThreshold
        /\ mems[id].memory_type # "identity"
        /\ mems[id].age > MinAgeDays
        /\ ~mems[id].forgotten}

\* prune_memories: store.forget of every candidate
PruneMemories(mems) ==
    [id \in DOMAIN mems |->
        IF id \in PruningCandidates(mems) THEN [mems[id] EXCEPT !.forgotten = TRUE]
        ELSE mems[id]]

\* what run_maintenance does to the store under a configuration
Maintained(mems, config) ==
    LET decayed == IF config.enable_decay THEN ApplyDecay(mems) ELSE mems
    IN IF config.enable_pruning THEN PruneMemories(decayed) ELSE decayed

\* run_maintenance(store, config)
RunMaintenance(config) ==
    /\ memories' = Maintained(memories, config)
    /\ ret' = "ok"
    /\ lastOp' = IF config.enable_consolidation THEN "maintenance_consolidation"
                 ELSE "maintenance"
    /\ UNCHANGED <<cortexVars, call, associations, idxVars, items, now>>

InitMaintenance == InitConsolidate

NextMaintenance ==
    \/ \E id \in MemIds : \E m \in AgedInputs(id) : AgedSave(m)
    \/ \E config \in MaintenanceConfigs : RunMaintenance(config)

SpecMaintenance == InitMaintenance /\ [][NextMaintenance]_vars


\* ------------------------------------------------------------------------
\* Reading and fading a working memory
\* ------------------------------------------------------------------------

\* the working memory of MemoryCortex::new holds 20 items; the contents below
\* are those a working memory of at least ContextLen items gets into: remember
\* sorts, focus and pin then change the sort keys in place, time passes
ContextLen == 2

\* attention after one remember and after a second one
AttentionLevels == {InitialAttention, InitialAttention + AttentionBump}

\* expires_at: none, or one second after construction
Expiries == {NoExpiry, 1}

ItemInputs ==
    [memory_id : Ids, attention_score : AttentionLevels, expires_at : Expiries,
     pinned : BOOLEAN]

ItemSeqs ==
    UNION {{s \in [1..n -> ItemInputs] :
              \A i, j \in 1..n : i # j => s[i].memory_id # s[j].memory_id}
           : n \in 0..ContextLen}

\* get_context without the expiry filter
GetContextUnfiltered(s) == SortItems(s)

\* WorkingMemory::get_context(&self): filter exp > now, sort pinned first then
\* attention descending
GetContext(s) == SortItems(SelectSeq(s, NotExpired))

\* MemoryCortex::get_context(): read lock, WorkingMemory::get_context
ReadContext ==
    /\ ret' = GetContext(items)
    /\ lastOp' = "get_context"
    /\ UNCHANGED <<items, now, memories, associations, idxVars, call, cortexVars>>

InitContext ==
    /\ items \in ItemSeqs
    /\ now = 0
    /\ lastOp = "other"
    /\ StoreNew
    /\ CortexNew

NextContext ==
    \/ ReadContext
    \/ Tick

SpecContext == InitContext /\ [][NextContext]_vars

\* decay() called again and again on a working memory nothing else writes to
NextDecay ==
    \/ Decay
    \/ Tick

SpecDecay == InitContext /\ [][NextDecay]_vars /\ WF_vars(Decay)


\* ------------------------------------------------------------------------
\* Context window
\* ------------------------------------------------------------------------

\* a string is its length in bytes, which is all estimate_tokens reads

\* lines per list: working-memory items, and max_important
BuildLines == 2

\* remaining_tokens > 100 opens the important layer
ImportantReserve == 100

\* "## Active Context\n", "### Pinned\n", "### Working Memory\n",
\* "\n## Important Memories\n"
ActiveHeaderLen == 18
PinnedHeaderLen == 11
WorkingHeaderLen == 19
ImportantHeaderLen == 23

\* max_tokens of the window: too small for a section, above the reserve
MaxTokenChoices == {30, 120}

\* content.len() of a memory
ContentLens == {10, 131}

LineTypes == {"fact", "preference"}

\* Display for MemoryType
TypeLen(t) ==
    CASE t = "fact" -> 4
      [] t = "preference" -> 10
      [] t = "identity" -> 8
      [] t = "summary" -> 7

\* "- [{}] {}\n"
PinnedLineLen(i) == 6 + TypeLen(i.memory_type) + i.content_len

\* "- [{}] {} (attn: {:.2})\n"
ActiveLineLen(i) == 19 + TypeLen(i.memory_type) + i.content_len

\* "- [{}] {} (importance: {:.2})\n"
ImportantLineLen(m) == 25 + TypeLen(m.memory_type) + m.content_len

\* decimal digits of memory_ids.len()
Digits(n) == IF n < 10 THEN 1 ELSE 2

\* "\n## Current Experience: {}\n{}\n- Memories in this experience: {}\n"
ExperienceLen(ep) == 58 + ep.title_len + ep.context_len + Digits(ep.memory_count)

\* (text.len() as f64 * 0.75).ceil()
EstimateTokens(len) == (3 * len + 3) \div 4

RECURSIVE SumPinnedLines(_)
SumPinnedLines(s) ==
    IF s = <<>> THEN 0 ELSE PinnedLineLen(Head(s)) + SumPinnedLines(Tail(s))

RECURSIVE SumActiveLines(_)
SumActiveLines(s) ==
    IF s = <<>> THEN 0 ELSE ActiveLineLen(Head(s)) + SumActiveLines(Tail(s))

IsPinned(i) == i.pinned
IsActive(i) == ~i.pinned

\* the "## Active Context" section of the items get_context returned
ContextSectionLen(context_items) ==
    LET pinned == SelectSeq(context_items, IsPinned)
        active == SelectSeq(context_items, IsActive)
    IN ActiveHeaderLen
       + (IF pinned # <<>> THEN PinnedHeaderLen + SumPinnedLines(pinned) ELSE 0)
       + (IF active # <<>> THEN WorkingHeaderLen + SumActiveLines(active) ELSE 0)

\* a section goes in whole when its tokens are within what remains
PushSection(acc, len) ==
    IF EstimateTokens(len) <= acc.remaining_tokens
    THEN [output |-> acc.output + len,
          remaining_tokens |-> acc.remaining_tokens - EstimateTokens(len)]
    ELSE acc

\* the lines of the important section: each line is charged, the loop breaks
\* at the first line over what remains
RECURSIVE ImportantLines(_, _)
ImportantLines(important, remaining_tokens) ==
    IF important = <<>> THEN 0
    ELSE LET line == ImportantLineLen(Head(important))
         IN IF EstimateTokens(line) > remaining_tokens
            THEN 0
            ELSE line + ImportantLines(Tail(important),
                                       remaining_tokens - EstimateTokens(line))

NoExperience == [absent |-> TRUE]

\* ContextWindow::build: the length of the string it returns
Build(window, context_items, experience, important) ==
    LET start == [output |-> 0, remaining_tokens |-> window.max_tokens]
        l1 == IF window.include_working_memory /\ context_items # <<>>
              THEN PushSection(start, ContextSectionLen(context_items))
              ELSE start
        l2 == IF window.include_experience /\ experience # NoExperience
              THEN PushSection(l1, ExperienceLen(experience))
              ELSE l1
        taken == Truncate(important, window.max_important)
    IN IF window.include_important /\ l2.remaining_tokens > ImportantReserve
          /\ taken # <<>>
       THEN l2.output + ImportantHeaderLen + ImportantLines(taken, l2.remaining_tokens)
       ELSE l2.output

ContextWindows ==
    [max_tokens : MaxTokenChoices, include_working_memory : BOOLEAN,
     include_experience : BOOLEAN, include_important : BOOLEAN,
     max_important : {BuildLines}]

ContextItemInputs == [pinned : BOOLEAN, memory_type : {"fact"}, content_len : ContentLens]

ImportantInputs == [memory_type : LineTypes, content_len : ContentLens]

ExperienceInputs ==
    {NoExperience, [title_len |-> 10, context_len |-> 10, memory_count |-> 0]}

SeqsUpTo(S, n) == UNION {[1..k -> S] : k \in 0..n}

\* what a build reads: the window, get_context(), get_current_experience(),
\* the memories get_important ranks
BuildCalls ==
    [op : {"build"}, pc : {"idle"}, window : ContextWindows,
     context_items : SeqsUpTo(ContextItemInputs, BuildLines),
     experience : ExperienceInputs,
     important : SeqsUpTo(ImportantInputs, BuildLines)]

BuildContext ==
    /\ call.op = "build"
    /\ call.pc = "idle"
    /\ ret' = Build(call.window, call.context_items, call.experience, call.important)
    /\ call' = [call EXCEPT !.pc = "done"]
    /\ lastOp' = "build"
    /\ UNCHANGED <<items, now, memories, associations, idxVars, cortexVars>>

InitBuild ==
    /\ call \in BuildCalls
    /\ memories = [id \in MemIds |-> NoRow]
    /\ associations = {}
    /\ ret = "new"
    /\ index = {} /\ vectors = {} /\ matched = {}
    /\ WmNew
    /\ CortexNew

NextBuild == BuildContext

SpecBuild == InitBuild /\ [][NextBuild]_vars


\* ------------------------------------------------------------------------
\* Writes whose downstream step fails
\* ------------------------------------------------------------------------

\* a failing step whose error is dropped: the write goes on
WriteStepFailSwallowed ==
    /\ call.pc \in {"index", "vector"}
    /\ \/ call.pc = "index" /\ index' \in {index, index \cup {call.id}} /\ vectors' = vectors
       \/ call.pc = "vector" /\ vectors' \in {vectors, vectors \cup {call.id}} /\ index' = index
    /\ call' = [call EXCEPT !.pc = IF call.pc = "index" THEN AfterIndex(call)
                                   ELSE AfterVector(call)]
    /\ lastOp' = "step_failed"
    /\ UNCHANGED <<cortexVars, memories, associations, ret, matched, items, now>>

\* index_memory(memory)?, embed(..)?, vector.upsert(..)? or vector_index.store(..)?
\* returns Err: the ? leaves the function. The failing call may already have
\* committed (index_memory fails in reader.reload) or written (fs::write)
WriteStepFail ==
    /\ call.pc \in {"index", "vector"}
    /\ \/ call.pc = "index" /\ index' \in {index, index \cup {call.id}} /\ vectors' = vectors
       \/ call.pc = "vector" /\ vectors' \in {vectors, vectors \cup {call.id}} /\ index' = index
    /\ call' = [call EXCEPT !.pc = "err"]
    /\ lastOp' = "step_failed"
    /\ UNCHANGED <<cortexVars, memories, associations, ret, matched, items, now>>

NextWriteFail ==
    \/ \E id \in MemIds, attached \in BOOLEAN : WriteCall("remember", id, attached, NoExpiry)
    \/ \E id \in MemIds, attached \in BOOLEAN : WriteCall("save", id, attached, NoExpiry)
    \/ WriteStore
    \/ WriteIndex
    \/ WriteVector
    \/ WriteWorkingMemory
    \/ WriteReturn
    \/ WriteStepFail

SpecWriteFail == InitWrite /\ [][NextWriteFail]_vars


\* ------------------------------------------------------------------------
\* Read paths: hybrid_search and recall as calls
\* ------------------------------------------------------------------------

\* what embedder.embed(..) and vector.search(..) give back
VectorOutcomes == {"ok", "err"}

\* the ids of a result list, in its order
IdSeq(res) == [i \in 1..Len(res) |-> res[i].id]

\* MemorySystem::hybrid_search: search(..).await?, then hybrid_rank, where
\* embed(..).map_err(..)? and vb.search(..).await? leave with the error
HybridSearchOutcome(mems, assocs, idx, vecs, q, max_results, filter, tb, backend) ==
    IF backend = "err"
    THEN [op |-> "hybrid_search", outcome |-> "err", ids |-> <<>>,
          q |-> q, k |-> max_results, filter |-> filter]
    ELSE [op |-> "hybrid_search", outcome |-> "ok",
          ids |-> IdSeq(HybridSearch(mems, assocs, idx, vecs, q, max_results, filter, tb)),
          q |-> q, k |-> max_results, filter |-> filter]

\* a recall that also brings its hits into working memory
SysRecallAttending(q, limit, tb) ==
    /\ ret' = [op |-> "recall", outcome |-> "ok",
               ids |-> IdSeq(Recall(memories, index, q, limit, tb)),
               q |-> q, k |-> limit, filter |-> NoFilter]
    /\ items' = IF Recall(memories, index, q, limit, tb) = <<>> THEN items
                ELSE WmRemember(items, Recall(memories, index, q, limit, tb)[1].id, NoExpiry)
    /\ lastOp' = "recall"
    /\ UNCHANGED <<cortexVars, call, memories, associations, idxVars, now>>

\* MemoryCortex::recall(query, limit)
SysRecall(q, limit, tb) ==
    /\ ret' = [op |-> "recall", outcome |-> "ok",
               ids |-> IdSeq(Recall(memories, index, q, limit, tb)),
               q |-> q, k |-> limit, filter |-> NoFilter]
    /\ lastOp' = "recall"
    /\ UNCHANGED <<cortexVars, call, memories, associations, idxVars, items, now>>

\* MemorySystem::hybrid_search(query, cfg, filter_type) with a vector backend
\* attached; tb is the order the hash maps iterate in
SysHybridSearch(q, max_results, filter, tb, backend) ==
    /\ ret' = HybridSearchOutcome(memories, associations, index, vectors,
                                  q, max_results, filter, tb, backend)
    /\ lastOp' = IF backend = "err" THEN "hybrid_vector_error" ELSE "hybrid_search"
    /\ UNCHANGED <<cortexVars, call, memories, associations, idxVars, items, now>>

\* the rows save, forget and restore leave for the ids: none, live, forgotten
StoreContents ==
    {mems \in [MemIds -> {NoRow} \cup UNION {{RowOf(m) : m \in MemoryInputs(id)} : id \in MemIds}] :
        \A id \in MemIds :
            mems[id] = NoRow \/ mems[id] \in {RowOf(m) : m \in MemoryInputs(id)}}

\* no association, or one between two stored memories
AssociationSets(mems) ==
    {{}} \cup {{NewAssociation(FreshEdgeId({}), p[1], p[2], "related_to", DefaultWeight)} :
                 p \in {pr \in MemIds \X MemIds :
                          HasRow(mems, pr[1]) /\ HasRow(mems, pr[2]) /\ pr[1] < pr[2]}}

\* the same content, type and importance saved under every id
TwinContents == [MemIds -> {NoRow, RowOf(NewMemory(1))}]

\* a MemorySystem after saves, forgets and associates: every row is indexed
\* and has its vector
ReadStart(contents) ==
    /\ memories \in contents
    /\ associations \in AssociationSets(memories)
    /\ index = {id \in MemIds : HasRow(memories, id)}
    /\ vectors = {id \in MemIds : HasRow(memories, id)}
    /\ matched = {}
    /\ call = NoCall
    /\ ret = "new"
    /\ WmNew
    /\ CortexNew

InitRead == ReadStart(StoreContents)

InitTwin == ReadStart(StoreContents \cup TwinContents)

NextRead ==
    \/ \E q \in Queries, k \in Ks, tb \in EndOrders : SysRecall(q, k, tb)
    \/ \E q \in Queries, k \in Ks, filter \in Filters, tb \in EndOrders,
          backend \in VectorOutcomes : SysHybridSearch(q, k, filter, tb, backend)

SpecRead == InitRead /\ [][NextRead]_vars

\* the read paths over stores that may hold equal memories under two ids
SpecTwin == InitTwin /\ [][NextRead]_vars


\* ------------------------------------------------------------------------
\* remember when the episode link cannot be persisted
\* ------------------------------------------------------------------------

\* MemoryCortex::remember / remember_with_ttl with an open episode, where
\* store.add_memory_to_experience returns Err: `let _ = ...` drops the error
\* after ep.add_memory has run, and the call ends in Ok(())
EpisodeRememberLinkFails(id) ==
    /\ current # NoRow
    /\ ~InsertConflicts(memories, id)
    /\ memories' = SaveRows(memories, NewMemory(id))
    /\ vectors' = vectors \cup {id}
    /\ items' = WmRemember(items, id, NoExpiry)
    /\ current' = AddMemory(current, id)
    /\ ret' = "ok"
    /\ lastOp' = "remember_link_failed"
    /\ UNCHANGED <<expLinks, experiences, summaries, associations, index, matched, call, now>>

NextEpisodeFail ==
    \/ StartEpisode
    \/ EndEpisode
    \/ \E id \in MemIds : EpisodeRemember(id)
    \/ \E id \in MemIds : EpisodeRememberLinkFails(id)

SpecEpisodeFail == InitEpisode /\ [][NextEpisodeFail]_vars


\* ------------------------------------------------------------------------
\* What the store tells the caller about an id it does not hold
\* ------------------------------------------------------------------------

\* MemoryStore::update: the UPDATE is executed and Ok(()) returned, whatever
\* rows_affected is
UpdateReturns(mems, m) == "ok"

\* MemoryStore::forget (f = TRUE) / restore (f = FALSE): Ok(rows_affected > 0)
FlagReturns(mems, id, f) == IF FlagAffected(mems, id, f) THEN "true" ELSE "false"


\* ------------------------------------------------------------------------
\* Access counting: record_access and think_about from concurrent tasks
\* ------------------------------------------------------------------------

\* tasks that call into one MemoryCortex, and accesses in a run
NumThinkers == 2
MaxAccesses == 3

Thinkers == 1..NumThinkers

\* the two memories the tasks access
AccessIds == {1, 2}

\* a stored row with its access_count column
CountedRow(id, n) ==
    [content |-> ContentOf(id), memory_type |-> TypeOf(id),
     importance |-> DefaultImportance(TypeOf(id)), forgotten |-> FALSE,
     access_count |-> n]

IdleThinker == [pc |-> "idle", id |-> 0, loaded |-> NoRow]

\* accesses that have returned
Completed == call.completed[1] + call.completed[2]

\* UPDATE memories SET last_accessed_at = ?, access_count = access_count + 1
\* WHERE id = ?: one statement
RecordAccess(id) ==
    /\ Completed < MaxAccesses
    /\ memories' = [memories EXCEPT ![id].access_count = @ + 1]
    /\ call' = [call EXCEPT !.completed[id] = @ + 1]
    /\ lastOp' = "record_access"
    /\ UNCHANGED <<cortexVars, associations, ret, idxVars, items, now>>

\* think_about: let memory = self.store.load(memory_id).await?
ThinkLoad(p, id) ==
    /\ call.thinkers[p].pc = "idle"
    /\ Completed + Cardinality({t \in Thinkers : call.thinkers[t].pc # "idle"}) < MaxAccesses
    /\ call' = [call EXCEPT !.thinkers[p] = [pc |-> "attend", id |-> id, loaded |-> memories[id]]]
    /\ lastOp' = "other"
    /\ UNCHANGED <<cortexVars, memories, associations, ret, idxVars, items, now>>

\* think_about: wm.remember(mem, None) under the write lock
ThinkAttend(p) ==
    /\ call.thinkers[p].pc = "attend"
    /\ items' = WmRemember(items, call.thinkers[p].id, NoExpiry)
    /\ call' = [call EXCEPT !.thinkers[p].pc = "update"]
    /\ lastOp' = "other"
    /\ UNCHANGED <<cortexVars, memories, associations, ret, idxVars, now>>

\* think_about: m = mem.clone(); m.access_count += 1; self.store.update(&m)
ThinkUpdate(p) ==
    /\ call.thinkers[p].pc = "update"
    /\ memories' = [memories EXCEPT ![call.thinkers[p].id] =
                       [call.thinkers[p].loaded EXCEPT !.access_count = @ + 1]]
    /\ call' = [call EXCEPT !.thinkers[p] = IdleThinker,
                            !.completed[call.thinkers[p].id] = @ + 1]
    /\ lastOp' = "think_about"
    /\ UNCHANGED <<cortexVars, associations, ret, idxVars, items, now>>

\* both memories are stored and nobody has accessed them
InitAccess ==
    /\ memories = [id \in AccessIds |-> CountedRow(id, 0)]
    /\ associations = {}
    /\ ret = "new"
    /\ index = {} /\ vectors = {} /\ matched = {}
    /\ call = [op |-> "access", pc |-> "idle",
               thinkers |-> [p \in Thinkers |-> IdleThinker],
               completed |-> [id \in AccessIds |-> 0]]
    /\ WmNew
    /\ CortexNew

NextAccess ==
    \/ \E id \in AccessIds : RecordAccess(id)
    \/ \E p \in Thinkers, id \in AccessIds : ThinkLoad(p, id)
    \/ \E p \in Thinkers : ThinkAttend(p)
    \/ \E p \in Thinkers : ThinkUpdate(p)

SpecAccess == InitAccess /\ [][NextAccess]_vars


\* ------------------------------------------------------------------------
\* Vector backends (src/src/vector_backend.rs): file and LanceDB
\* ------------------------------------------------------------------------

\* concurrent callers of one backend, and upserts in a run
NumTasks == 2
MaxUpserts == 3

\* VectorSearchConfig::default().dimension
Dimension == 384

Tasks == 1..NumTasks

\* lengths of the vectors callers pass: the backend's dimension, or not
VectorLens == {Dimension, Dimension - 1}

NoVector == [absent |-> TRUE]

IdleTask == [pc |-> "idle", id |-> 0, vector |-> NoVector]

\* rows of the LanceDB table with this id removed
TableDelete(table, id) == {r \in table : r.id # id}

\* FileVectorBackend::upsert -> VectorIndex::store: serialize and write
\* <id>.bin, whatever the length of the vector
FileUpsert(id, len) ==
    /\ call.issued < MaxUpserts
    /\ vectors' = [vectors EXCEPT !.file[id] = [len |-> len, tag |-> call.issued + 1]]
    /\ call' = [call EXCEPT !.issued = @ + 1]
    /\ ret' = [op |-> "file_upsert", outcome |-> "ok", len |-> len]
    /\ lastOp' = "file_upsert"
    /\ UNCHANGED <<cortexVars, memories, associations, index, matched, items, now>>

\* FileVectorBackend::delete -> VectorIndex::delete
FileDelete(id) ==
    /\ vectors.file[id] # NoVector
    /\ vectors' = [vectors EXCEPT !.file[id] = NoVector]
    /\ ret' = [op |-> "file_delete", outcome |-> "ok", len |-> 0]
    /\ lastOp' = "file_delete"
    /\ UNCHANGED <<cortexVars, call, memories, associations, index, matched, items, now>>

\* LanceDbVectorBackend::upsert: get_or_init_table().await?
LanceUpsertStart(p, id, len) ==
    /\ call.tasks[p].pc = "idle"
    /\ call.issued < MaxUpserts
    /\ call' = [call EXCEPT !.tasks[p] = [pc |-> "delete", id |-> id,
                                          vector |-> [len |-> len, tag |-> call.issued + 1]],
                            !.issued = @ + 1]
    /\ lastOp' = "lance_start"
    /\ UNCHANGED <<cortexVars, vectors, ret, memories, associations, index, matched, items, now>>

\* let _ = self.delete(id).await, the delete went through
LanceUpsertDelete(p) ==
    /\ call.tasks[p].pc = "delete"
    /\ vectors' = [vectors EXCEPT !.table = TableDelete(@, call.tasks[p].id)]
    /\ call' = [call EXCEPT !.tasks[p].pc = "add"]
    /\ lastOp' = "lance_delete_first"
    /\ UNCHANGED <<cortexVars, ret, memories, associations, index, matched, items, now>>

\* let _ = self.delete(id).await, the delete returned Err, which is dropped
LanceUpsertDeleteFails(p) ==
    /\ call.tasks[p].pc = "delete"
    /\ call' = [call EXCEPT !.tasks[p].pc = "add"]
    /\ lastOp' = "lance_delete_first"
    /\ UNCHANGED <<cortexVars, vectors, ret, memories, associations, index, matched, items, now>>

\* batch_for_upsert(..)? with its dimension check, then table.add(..)
LanceUpsertAdd(p) ==
    /\ call.tasks[p].pc = "add"
    /\ IF call.tasks[p].vector.len # Dimension
       THEN /\ vectors' = vectors
            /\ ret' = [op |-> "lance_upsert", outcome |-> "err", len |-> call.tasks[p].vector.len]
       ELSE /\ vectors' = [vectors EXCEPT !.table =
                              @ \cup {[id |-> call.tasks[p].id, vector |-> call.tasks[p].vector]}]
            /\ ret' = [op |-> "lance_upsert", outcome |-> "ok", len |-> call.tasks[p].vector.len]
    /\ call' = [call EXCEPT !.tasks[p] = IdleTask]
    /\ lastOp' = "lance_upsert"
    /\ UNCHANGED <<cortexVars, memories, associations, index, matched, items, now>>

\* LanceDbVectorBackend::delete: table.delete("id = '..'")
LanceDelete(id) ==
    /\ \E r \in vectors.table : r.id = id
    /\ vectors' = [vectors EXCEPT !.table = TableDelete(@, id)]
    /\ ret' = [op |-> "lance_delete", outcome |-> "ok", len |-> 0]
    /\ lastOp' = "lance_delete"
    /\ UNCHANGED <<cortexVars, call, memories, associations, index, matched, items, now>>

\* both backends empty, nobody is calling
InitVector ==
    /\ vectors = [file |-> [id \in MemIds |-> NoVector], table |-> {}]
    /\ call = [op |-> "vector", pc |-> "idle", issued |-> 0,
               tasks |-> [p \in Tasks |-> IdleTask]]
    /\ memories = [id \in MemIds |-> NoRow]
    /\ associations = {}
    /\ ret = [op |-> "none", outcome |-> "ok", len |-> 0]
    /\ index = {} /\ matched = {}
    /\ WmNew
    /\ CortexNew

NextVector ==
    \/ \E id \in MemIds, len \in VectorLens : FileUpsert(id, len)
    \/ \E id \in MemIds : FileDelete(id)
    \/ \E p \in Tasks, id \in MemIds, len \in VectorLens : LanceUpsertStart(p, id, len)
    \/ \E p \in Tasks : LanceUpsertDelete(p)
    \/ \E p \in Tasks : LanceUpsertDeleteFails(p)
    \/ \E p \in Tasks : LanceUpsertAdd(p)
    \/ \E id \in MemIds : LanceDelete(id)

SpecVector == InitVector /\ [][NextVector]_vars


\* ------------------------------------------------------------------------
\* LanceDbVectorBackend::search and its lazy ANN index
\* ------------------------------------------------------------------------

\* LanceDbAnnConfig.min_rows_for_index, and the most rows the table gets
MinRowsForIndex == 2
MaxRows == MinRowsForIndex + 1

IdleSearch == [pc |-> "idle", counted |-> 0]

\* the guard of ann_index_ready.write() is dropped and the search goes on
AnnRelease(p, next) ==
    [call EXCEPT !.lock = 0, !.tasks[p].pc = next]

\* search: the dimension check, get_or_init_table, then ensure_ann_index
\* up to its first await
SearchStart(p, len) ==
    /\ call.tasks[p].pc = "idle"
    /\ IF len # Dimension
       THEN /\ ret' = [op |-> "lance_search", outcome |-> "err", indexed |-> FALSE]
            /\ call' = call
            /\ lastOp' = "lance_search"
       ELSE /\ call' = [call EXCEPT !.tasks[p].pc =
                            IF call.enabled THEN "read" ELSE "query"]
            /\ ret' = ret
            /\ lastOp' = "search_start"
    /\ UNCHANGED <<cortexVars, vectors, memories, associations, index, matched, items, now>>

\* ensure_ann_index: ann_index_ready.read().await and the first look
AnnReadCheck(p) ==
    /\ call.tasks[p].pc = "read"
    /\ call.lock = 0
    /\ call' = [call EXCEPT !.tasks[p].pc = IF call.ready THEN "query" ELSE "lock"]
    /\ lastOp' = "ann_read"
    /\ UNCHANGED <<cortexVars, vectors, ret, memories, associations, index, matched, items, now>>

\* ann_index_ready.write().await, granted whoever else holds it
AnnLockShared(p) ==
    /\ call.tasks[p].pc = "lock"
    /\ call' = [call EXCEPT !.lock = p, !.tasks[p].pc = "recheck"]
    /\ lastOp' = "ann_lock"
    /\ UNCHANGED <<cortexVars, vectors, ret, memories, associations, index, matched, items, now>>

\* ann_index_ready.write().await: granted when nobody holds the lock
AnnLock(p) ==
    /\ call.tasks[p].pc = "lock"
    /\ call.lock = 0
    /\ call' = [call EXCEPT !.lock = p, !.tasks[p].pc = "recheck"]
    /\ lastOp' = "ann_lock"
    /\ UNCHANGED <<cortexVars, vectors, ret, memories, associations, index, matched, items, now>>

\* the second look, under the write guard
AnnRecheck(p) ==
    /\ call.tasks[p].pc = "recheck"
    /\ call' = IF call.ready THEN AnnRelease(p, "query")
                             ELSE [call EXCEPT !.tasks[p].pc = "list"]
    /\ lastOp' = "ann_recheck"
    /\ UNCHANGED <<cortexVars, vectors, ret, memories, associations, index, matched, items, now>>

\* table.list_indices(): an ANN index on "vector" is there already
AnnListIndices(p) ==
    /\ call.tasks[p].pc = "list"
    /\ call' = IF call.indices > 0
               THEN [AnnRelease(p, "query") EXCEPT !.ready = TRUE]
               ELSE [call EXCEPT !.tasks[p].pc = "count"]
    /\ lastOp' = "ann_list"
    /\ UNCHANGED <<cortexVars, vectors, ret, memories, associations, index, matched, items, now>>

\* table.count_rows(None) against min_rows_for_index
AnnCountRows(p) ==
    /\ call.tasks[p].pc = "count"
    /\ call' = IF call.rows < MinRowsForIndex
               THEN AnnRelease(p, "query")
               ELSE [call EXCEPT !.tasks[p] = [pc |-> "create", counted |-> call.rows]]
    /\ lastOp' = "ann_count"
    /\ UNCHANGED <<cortexVars, vectors, ret, memories, associations, index, matched, items, now>>

\* table.create_index(["vector"], ..).execute() went through
AnnCreateIndex(p) ==
    /\ call.tasks[p].pc = "create"
    /\ call' = [AnnRelease(p, "query") EXCEPT !.ready = TRUE,
                                               !.indices = @ + 1,
                                               !.created = @ + 1]
    /\ lastOp' = "ann_create"
    /\ UNCHANGED <<cortexVars, vectors, ret, memories, associations, index, matched, items, now>>

\* table.create_index(..) returned Err: search returns it, nothing is ready
AnnCreateFails(p) ==
    /\ call.tasks[p].pc = "create"
    /\ call' = [AnnRelease(p, "idle") EXCEPT !.tasks[p] = IdleSearch]
    /\ ret' = [op |-> "lance_search", outcome |-> "err", indexed |-> FALSE]
    /\ lastOp' = "lance_search"
    /\ UNCHANGED <<cortexVars, vectors, memories, associations, index, matched, items, now>>

\* search: the vector query and the collection of its hits
SearchQuery(p) ==
    /\ call.tasks[p].pc = "query"
    /\ call' = [call EXCEPT !.tasks[p] = IdleSearch]
    /\ ret' = [op |-> "lance_search", outcome |-> "ok", indexed |-> call.indices > 0]
    /\ lastOp' = "lance_search"
    /\ UNCHANGED <<cortexVars, vectors, memories, associations, index, matched, items, now>>

\* another caller's upsert added a row to the table
TableAdd ==
    /\ call.rows < MaxRows
    /\ call' = [call EXCEPT !.rows = @ + 1]
    /\ lastOp' = "table_add"
    /\ UNCHANGED <<cortexVars, vectors, ret, memories, associations, index, matched, items, now>>

\* another caller's delete removed a row from the table
TableRemove ==
    /\ call.rows > 0
    /\ call' = [call EXCEPT !.rows = @ - 1]
    /\ lastOp' = "table_remove"
    /\ UNCHANGED <<cortexVars, vectors, ret, memories, associations, index, matched, items, now>>

\* LanceDbVectorBackend::new over a table that is empty, with or without an
\* ANN index left by an earlier run, and with ANN on or off
InitAnn ==
    /\ \E enabled \in BOOLEAN, existing \in {0, 1} :
          call = [op |-> "ann", pc |-> "idle", enabled |-> enabled, ready |-> FALSE,
                  lock |-> 0, indices |-> existing, created |-> 0, rows |-> 0,
                  tasks |-> [p \in Tasks |-> IdleSearch]]
    /\ vectors = [file |-> [id \in MemIds |-> NoVector], table |-> {}]
    /\ memories = [id \in MemIds |-> NoRow]
    /\ associations = {}
    /\ ret = [op |-> "none", outcome |-> "ok", indexed |-> FALSE]
    /\ index = {} /\ matched = {}
    /\ WmNew
    /\ CortexNew

NextAnn ==
    \/ \E p \in Tasks, len \in VectorLens : SearchStart(p, len)
    \/ \E p \in Tasks : AnnReadCheck(p)
    \/ \E p \in Tasks : AnnLock(p)
    \/ \E p \in Tasks : AnnRecheck(p)
    \/ \E p \in Tasks : AnnListIndices(p)
    \/ \E p \in Tasks : AnnCountRows(p)
    \/ \E p \in Tasks : AnnCreateIndex(p)
    \/ \E p \in Tasks : AnnCreateFails(p)
    \/ \E p \in Tasks : SearchQuery(p)
    \/ TableAdd
    \/ TableRemove

SpecAnn == InitAnn /\ [][NextAnn]_vars


\* ------------------------------------------------------------------------
\* Ranges of importance and confidence (src/src/types.rs,
\* src/src/confidence.rs, src/goldfish-server/src/api.rs)
\* ------------------------------------------------------------------------

\* corroborations of one memory in a run
MaxCorroborations == 2

\* ConfidenceWeights::default, in hundredths
ConfidenceWeights ==
    [source_reliability |-> 35, consistency |-> 25,
     retrieval_stability |-> 20, user_verification |-> 20]

\* ConfidenceFactors::default, factors in thousandths
DefaultFactors ==
    [source_reliability |-> 500, consistency_score |-> 500, retrieval_stability |-> 500,
     user_verification |-> 0, corroboration_count |-> 0, corroboration_score |-> 0]

\* MemoryConfidence::new: score 0.5, in thousandths
NewConfidence == [score |-> 500, factors |-> DefaultFactors]

\* SourceReliability::score of UserVerified, SingleSource and Uncertain
ReliabilityScores == {1000, 500, 300}

\* importances a caller passes, in hundredths: below, inside and above [0, 1]
ImportanceInputs == {0 - 50, 50, 150}

\* days since the last update and the last access of a stored memory
RangeAges == {0, 10, 40}

\* ConfidenceFactors::corroboration_boost, 0.1 * (1 + ln(1 + count)), in
\* thousandths
CorroborationBoost(count) ==
    IF count = 0 THEN 0
    ELSE IF count = 1 THEN 169
    ELSE IF count = 2 THEN 209
    ELSE 238

\* 0.1 / sqrt(count), in thousandths
CorroborationStep(count) ==
    IF count = 1 THEN 100 ELSE IF count = 2 THEN 70 ELSE 57

\* the weighted combination of recalculate, before the clamp
WeightedScore(f) ==
    (f.source_reliability * ConfidenceWeights.source_reliability
       + f.consistency_score * ConfidenceWeights.consistency
       + f.retrieval_stability * ConfidenceWeights.retrieval_stability
       + f.user_verification * ConfidenceWeights.user_verification) \div 100
    + CorroborationBoost(f.corroboration_count)

\* MemoryConfidence::recalculate
Recalculate(c) == [c EXCEPT !.score = Max2(0, Min2(1000, WeightedScore(c.factors)))]

\* MemoryConfidence::with_source_reliability
WithSourceReliability(score) ==
    Recalculate([NewConfidence EXCEPT !.factors.source_reliability = score])

\* MemoryConfidence::corroborate
Corroborate(c) ==
    Recalculate([c EXCEPT
        !.factors.corroboration_count = @ + 1,
        !.factors.corroboration_score =
            Min2(@ + CorroborationStep(c.factors.corroboration_count + 1), 1000)])

\* MemoryConfidence::flag_contradiction: consistency_score *= 0.7
FlagContradiction(c) ==
    Recalculate([c EXCEPT !.factors.consistency_score = (@ * 7) \div 10])

\* MemoryConfidence::verify
Verify(c) == Recalculate([c EXCEPT !.factors.user_verification = 1000])

\* MemoryConfidence::decay(30): decay_factor = 0.5
ConfidenceDecay(c) ==
    Recalculate([c EXCEPT
        !.factors.retrieval_stability = @ \div 2,
        !.factors.consistency_score = Min2((@ * 95) \div 100 + 25, 1000)])

\* Memory::new of a type, seen updated_age and access_age days later
RangeMemory(t, updated_age, access_age) ==
    [memory_type |-> t, importance |-> DefaultImportance(t), confidence |-> NewConfidence,
     updated_age |-> updated_age, access_age |-> access_age]

\* Memory::with_importance
WithImportance(m, importance) ==
    [m EXCEPT !.importance = Max2(0, Min2(100, importance))]

\* create_memory of the HTTP server: memory.importance = imp, then remember
CreateMemoryImportance(m, importance) == [m EXCEPT !.importance = importance]

\* operations on one memory in a run
MaxRangeSteps == 3

\* the memory is replaced by what an operation made of it
RangeStep(m) == [call EXCEPT !.memory = m, !.steps = @ + 1]

RangeReady == call.op = "range" /\ call.steps < MaxRangeSteps

rangeRest == <<cortexVars, vectors, ret, memories, associations, index, matched, items, now>>

BuildWithImportance ==
    /\ RangeReady
    /\ \E x \in ImportanceInputs : call' = RangeStep(WithImportance(call.memory, x))
    /\ lastOp' = "with_importance"
    /\ UNCHANGED rangeRest

BuildWithConfidence ==
    /\ RangeReady
    /\ \E r \in ReliabilityScores :
          call' = RangeStep([call.memory EXCEPT !.confidence = WithSourceReliability(r)])
    /\ lastOp' = "with_confidence"
    /\ UNCHANGED rangeRest

MemoryVerify ==
    /\ RangeReady
    /\ call' = RangeStep([call.memory EXCEPT !.confidence = Verify(@)])
    /\ lastOp' = "verify"
    /\ UNCHANGED rangeRest

MemoryCorroborate ==
    /\ RangeReady
    /\ call.memory.confidence.factors.corroboration_count < MaxCorroborations
    /\ call' = RangeStep([call.memory EXCEPT !.confidence = Corroborate(@)])
    /\ lastOp' = "corroborate"
    /\ UNCHANGED rangeRest

MemoryFlagContradiction ==
    /\ RangeReady
    /\ call' = RangeStep([call.memory EXCEPT !.confidence = FlagContradiction(@)])
    /\ lastOp' = "flag_contradiction"
    /\ UNCHANGED rangeRest

MemoryConfidenceDecay ==
    /\ RangeReady
    /\ call' = RangeStep([call.memory EXCEPT !.confidence = ConfidenceDecay(@)])
    /\ lastOp' = "confidence_decay"
    /\ UNCHANGED rangeRest

\* apply_decay on the memory, when it can decay and the change is significant
MaintenanceDecay ==
    /\ RangeReady
    /\ CanDecay(call.memory.memory_type)
    /\ Significant(call.memory)
    /\ call' = RangeStep(DecayedRow(call.memory))
    /\ lastOp' = "apply_decay"
    /\ UNCHANGED rangeRest

\* POST of a CreateMemoryRequest with an importance
HttpCreateMemory ==
    /\ RangeReady
    /\ \E t \in {"fact", "goal"}, x \in ImportanceInputs :
          call' = RangeStep(CreateMemoryImportance(RangeMemory(t, 0, 0), x))
    /\ lastOp' = "create_memory"
    /\ UNCHANGED rangeRest

InitRange ==
    /\ \E t \in {"fact", "identity"}, u \in RangeAges, a \in RangeAges :
          call = [op |-> "range", pc |-> "idle", steps |-> 0,
                  memory |-> RangeMemory(t, u, a)]
    /\ vectors = {}
    /\ memories = [id \in MemIds |-> NoRow]
    /\ associations = {}
    /\ ret = "new"
    /\ index = {} /\ matched = {}
    /\ WmNew
    /\ CortexNew

NextRange ==
    \/ BuildWithImportance
    \/ BuildWithConfidence
    \/ MemoryVerify
    \/ MemoryCorroborate
    \/ MemoryFlagContradiction
    \/ MemoryConfidenceDecay
    \/ MaintenanceDecay
    \/ HttpCreateMemory

SpecRange == InitRange /\ [][NextRange]_vars


\* ------------------------------------------------------------------------
\* The two locks of MemoryCortex: working_memory and current_experience
\* (src/src/cortex.rs). What the calls do to the data is in the sections
\* above; here a call is the sequence of its lock operations and awaits.
\* ------------------------------------------------------------------------

\* the public calls; think_about_missing is think_about of an id the store
\* does not hold, remember_fails a remember whose store.save returns Err
LockOps ==
    {"remember", "remember_fails", "remember_with_ttl", "think_about", "think_about_missing",
     "focus", "pin", "unpin", "decay", "get_context", "build_context",
     "start_episode", "end_episode"}

\* a build_context that keeps the current_experience guard while it reads
\* working memory
ProgramHoldingEpisode(op) ==
    IF op \in {"remember", "remember_with_ttl"}
        THEN <<"await", "wm_write", "ep_write", "await", "release">>
    ELSE IF op \in {"remember_fails", "think_about_missing"} THEN <<"await">>
    ELSE IF op = "think_about" THEN <<"await", "wm_write", "await", "release">>
    ELSE IF op \in {"focus", "pin", "unpin", "decay"} THEN <<"wm_write", "release">>
    ELSE IF op = "get_context" THEN <<"wm_read">>
    ELSE IF op = "build_context" THEN <<"ep_write", "wm_write", "release", "await">>
    ELSE IF op = "start_episode" THEN <<"await", "ep_write", "release">>
    ELSE <<"ep_write", "await", "release">>

\* what a call does with the locks, in order: "await" is an await on the
\* store or the vector index, "wm_write" and "ep_write" are .write().await
\* with the guard kept, "wm_read" and "ep_read" are .read().await with the
\* guard dropped before the next await, "release" is the end of the guards'
\* scope
Program(op) ==
    IF op \in {"remember", "remember_with_ttl"}
        THEN <<"await", "wm_write", "ep_write", "await", "release">>
    ELSE IF op \in {"remember_fails", "think_about_missing"} THEN <<"await">>
    ELSE IF op = "think_about" THEN <<"await", "wm_write", "await", "release">>
    ELSE IF op \in {"focus", "pin", "unpin", "decay"} THEN <<"wm_write", "release">>
    ELSE IF op = "get_context" THEN <<"wm_read">>
    ELSE IF op = "build_context" THEN <<"wm_read", "ep_read", "await">>
    ELSE IF op = "start_episode" THEN <<"await", "ep_write", "release">>
    ELSE <<"ep_write", "await", "release">>

IdleCaller == [op |-> "none", at |-> 0]

Busy(p) == call.tasks[p].op # "none"

\* the lock operation or await the task is at
Instr(p) == IF Busy(p) THEN Program(call.tasks[p].op)[call.tasks[p].at] ELSE "none"

\* the task after its present instruction: at the next one, or returned
Advance(p) ==
    IF call.tasks[p].at < Len(Program(call.tasks[p].op))
    THEN [call.tasks[p] EXCEPT !.at = @ + 1]
    ELSE IdleCaller

lockRest == <<cortexVars, vectors, ret, memories, associations, index, matched, items, now>>

\* a caller enters one of the public calls
LockCall(p, op) ==
    /\ call.op = "locks"
    /\ ~Busy(p)
    /\ call' = [call EXCEPT !.tasks[p] = [op |-> op, at |-> 1]]
    /\ lastOp' = "call"
    /\ UNCHANGED lockRest

\* an await on the store or the vector index completes
LockAwait(p) ==
    /\ call.op = "locks"
    /\ Instr(p) = "await"
    /\ call' = [call EXCEPT !.tasks[p] = Advance(p)]
    /\ lastOp' = "await"
    /\ UNCHANGED lockRest

\* working_memory.write().await is granted
AcquireWm(p) ==
    /\ call.op = "locks"
    /\ Instr(p) = "wm_write"
    /\ call.wm = 0
    /\ call' = [call EXCEPT !.wm = p, !.tasks[p] = Advance(p)]
    /\ lastOp' = "wm_write"
    /\ UNCHANGED lockRest

\* current_experience.write().await is granted
AcquireEp(p) ==
    /\ call.op = "locks"
    /\ Instr(p) = "ep_write"
    /\ call.ep = 0
    /\ call' = [call EXCEPT !.ep = p, !.tasks[p] = Advance(p)]
    /\ lastOp' = "ep_write"
    /\ UNCHANGED lockRest

\* working_memory.read().await is granted, the snapshot taken, the guard dropped
ReadWm(p) ==
    /\ call.op = "locks"
    /\ Instr(p) = "wm_read"
    /\ call.wm = 0
    /\ call' = [call EXCEPT !.tasks[p] = Advance(p)]
    /\ lastOp' = "wm_read"
    /\ UNCHANGED lockRest

\* current_experience.read().await is granted, the clone taken, the guard dropped
ReadEp(p) ==
    /\ call.op = "locks"
    /\ Instr(p) = "ep_read"
    /\ call.ep = 0
    /\ call' = [call EXCEPT !.tasks[p] = Advance(p)]
    /\ lastOp' = "ep_read"
    /\ UNCHANGED lockRest

\* the guards the task holds go out of scope
LockRelease(p) ==
    /\ call.op = "locks"
    /\ Instr(p) = "release"
    /\ call' = [call EXCEPT !.wm = IF @ = p THEN 0 ELSE @,
                            !.ep = IF @ = p THEN 0 ELSE @,
                            !.tasks[p] = Advance(p)]
    /\ lastOp' = "release"
    /\ UNCHANGED lockRest

\* MemoryCortex::new: both locks free, nobody calling
InitLocks ==
    /\ call = [op |-> "locks", pc |-> "idle", wm |-> 0, ep |-> 0,
               tasks |-> [p \in Tasks |-> IdleCaller]]
    /\ vectors = {}
    /\ memories = [id \in MemIds |-> NoRow]
    /\ associations = {}
    /\ ret = "new"
    /\ index = {} /\ matched = {}
    /\ WmNew
    /\ CortexNew

NextLocks ==
    \/ \E p \in Tasks, op \in LockOps : LockCall(p, op)
    \/ \E p \in Tasks : LockAwait(p)
    \/ \E p \in Tasks : AcquireWm(p)
    \/ \E p \in Tasks : AcquireEp(p)
    \/ \E p \in Tasks : ReadWm(p)
    \/ \E p \in Tasks : ReadEp(p)
    \/ \E p \in Tasks : LockRelease(p)

\* the runtime polls every ready task, and tokio's RwLock serves its
\* waiters in the order they came
Progress(p) ==
    \/ LockAwait(p) \/ LockRelease(p)
    \/ AcquireWm(p) \/ AcquireEp(p) \/ ReadWm(p) \/ ReadEp(p)

LocksFairness == \A p \in Tasks : SF_vars(Progress(p))

SpecLocks == InitLocks /\ [][NextLocks]_vars /\ LocksFairness


\* ------------------------------------------------------------------------
\* think_about and apply_decay next to forget and restore of the same memory
\* ------------------------------------------------------------------------

\* maintenance runs in a run of the model, and the days between them
MaxDecayRuns == 1
DaysBetweenRuns == 40

IdleDecayer == [pc |-> "idle", id |-> 0, loaded |-> NoRow]

\* the row apply_decay writes back for a row it loaded: every column as
\* loaded, with the new importance clamped
DecayedLoaded(row) ==
    [row EXCEPT !.importance =
        Max2(0, Min2(100, (row.importance * AgeDecay(DaysBetweenRuns)
                             * AccessBoost(DaysBetweenRuns)) \div 10000))]

\* apply_decay: get_by_type returns the rows that are not forgotten; this
\* is the row of one memory reaching the loop body
DecayLoad(id) ==
    /\ call.decayer.pc = "idle"
    /\ call.decays < MaxDecayRuns
    /\ HasRow(memories, id)
    /\ ~memories[id].forgotten
    /\ CanDecay(memories[id].memory_type)
    /\ call' = [call EXCEPT !.decayer = [pc |-> "update", id |-> id, loaded |-> memories[id]],
                            !.decays = @ + 1]
    /\ lastOp' = "other"
    /\ UNCHANGED <<cortexVars, memories, associations, ret, idxVars, items, now>>

\* apply_decay: memory.importance = ..; memory_store.update(&memory)
DecayUpdate ==
    /\ call.decayer.pc = "update"
    /\ memories' = [memories EXCEPT ![call.decayer.id] = DecayedLoaded(call.decayer.loaded)]
    /\ call' = [call EXCEPT !.decayer = IdleDecayer]
    /\ lastOp' = "apply_decay"
    /\ UNCHANGED <<cortexVars, associations, ret, idxVars, items, now>>

\* MemoryStore::forget: one UPDATE
OwnForget(id) ==
    /\ FlagAffected(memories, id, TRUE)
    /\ memories' = SetForgotten(memories, id, TRUE)
    /\ lastOp' = "forget"
    /\ UNCHANGED <<cortexVars, call, associations, ret, idxVars, items, now>>

\* MemoryStore::restore: one UPDATE
OwnRestore(id) ==
    /\ FlagAffected(memories, id, FALSE)
    /\ memories' = SetForgotten(memories, id, FALSE)
    /\ lastOp' = "restore"
    /\ UNCHANGED <<cortexVars, call, associations, ret, idxVars, items, now>>

InitOwn ==
    /\ memories = [id \in AccessIds |-> CountedRow(id, 0)]
    /\ associations = {}
    /\ ret = "new"
    /\ index = {} /\ vectors = {} /\ matched = {}
    /\ call = [op |-> "own", pc |-> "idle",
               thinkers |-> [p \in Thinkers |-> IdleThinker],
               completed |-> [id \in AccessIds |-> 0],
               decayer |-> IdleDecayer, decays |-> 0]
    /\ WmNew
    /\ CortexNew

NextOwn ==
    \/ \E p \in Thinkers, id \in AccessIds : ThinkLoad(p, id)
    \/ \E p \in Thinkers : ThinkAttend(p)
    \/ \E p \in Thinkers : ThinkUpdate(p)
    \/ \E id \in AccessIds : DecayLoad(id)
    \/ DecayUpdate
    \/ \E id \in AccessIds : OwnForget(id)
    \/ \E id \in AccessIds : OwnRestore(id)

SpecOwn == InitOwn /\ [][NextOwn]_vars


\* ------------------------------------------------------------------------
\* remember, start_episode and end_episode from concurrent tasks
\* (src/src/cortex.rs 594-619, 753-789)
\* ------------------------------------------------------------------------

IdleRacer == [pc |-> "idle", id |-> 0, counted |-> {}]

raceRest == <<summaries, associations, index, matched, ret, now>>

\* remember: store.save and vector_index.store
RaceRememberSave(p, id) ==
    /\ call.tasks[p].pc = "idle"
    /\ memories' = SaveRows(memories, NewMemory(id))
    /\ IF InsertConflicts(memories, id)
       THEN /\ call' = call
            /\ vectors' = vectors
            /\ lastOp' = "remember_err"
       ELSE /\ call' = [call EXCEPT !.tasks[p] = [pc |-> "wm", id |-> id, counted |-> {}]]
            /\ vectors' = vectors \cup {id}
            /\ lastOp' = "other"
    /\ UNCHANGED <<raceRest, experiences, expLinks, current, items>>

\* remember: working_memory.write().await; wm.remember(memory, None)
RaceRememberWm(p) ==
    /\ call.tasks[p].pc = "wm"
    /\ call.wm = 0
    /\ items' = WmRemember(items, call.tasks[p].id, NoExpiry)
    /\ call' = [call EXCEPT !.wm = p, !.tasks[p].pc = "ep"]
    /\ lastOp' = "other"
    /\ UNCHANGED <<raceRest, experiences, expLinks, current, memories, vectors>>

\* a remember that reaches the episode without waiting for its lock
RaceRememberEpUnlocked(p) ==
    /\ call.tasks[p].pc = "ep"
    /\ IF current = NoRow
       THEN /\ call' = [call EXCEPT !.wm = 0, !.tasks[p] = IdleRacer]
            /\ current' = current
            /\ lastOp' = "remember"
       ELSE /\ call' = [call EXCEPT !.tasks[p].pc = "link"]
            /\ current' = AddMemory(current, call.tasks[p].id)
            /\ lastOp' = "add_memory"
    /\ UNCHANGED <<raceRest, experiences, expLinks, memories, vectors, items>>

\* remember: current_experience.write().await; with an episode,
\* ep.add_memory(id); without one, return Ok and drop both guards
RaceRememberEp(p) ==
    /\ call.tasks[p].pc = "ep"
    /\ call.ep = 0
    /\ IF current = NoRow
       THEN /\ call' = [call EXCEPT !.wm = 0, !.tasks[p] = IdleRacer]
            /\ current' = current
            /\ lastOp' = "remember"
       ELSE /\ call' = [call EXCEPT !.ep = p, !.tasks[p].pc = "link"]
            /\ current' = AddMemory(current, call.tasks[p].id)
            /\ lastOp' = "add_memory"
    /\ UNCHANGED <<raceRest, experiences, expLinks, memories, vectors, items>>

\* remember: let _ = store.add_memory_to_experience(..).await, which
\* inserts the link or fails; then Ok(()) and both guards are dropped
RaceRememberLink(p) ==
    /\ call.tasks[p].pc = "link"
    /\ \E stored \in BOOLEAN :
          expLinks' = IF stored /\ current # NoRow
                      THEN AddMemoryToExperience(expLinks, current.id, call.tasks[p].id)
                      ELSE expLinks
    /\ call' = [call EXCEPT !.wm = 0,
                            !.ep = IF @ = p THEN 0 ELSE @,
                            !.tasks[p] = IdleRacer]
    /\ lastOp' = "remember"
    /\ UNCHANGED <<raceRest, experiences, current, memories, vectors, items>>

\* start_episode: Experience::new and store.save_experience
RaceStartSave(p) ==
    /\ call.tasks[p].pc = "idle"
    /\ FreeEpIds # {}
    /\ experiences' = [experiences EXCEPT ![FreshEpId] = ExperienceRow(NewExperience(FreshEpId))]
    /\ call' = [call EXCEPT !.tasks[p] = [pc |-> "set", id |-> FreshEpId, counted |-> {}]]
    /\ lastOp' = "other"
    /\ UNCHANGED <<raceRest, expLinks, current, memories, vectors, items>>

\* start_episode: current_experience.write().await; *episode = Some(experience)
RaceStartSet(p) ==
    /\ call.tasks[p].pc = "set"
    /\ call.ep = 0
    /\ current' = NewExperience(call.tasks[p].id)
    /\ call' = [call EXCEPT !.tasks[p] = IdleRacer]
    /\ lastOp' = "start_episode"
    /\ UNCHANGED <<raceRest, experiences, expLinks, memories, vectors, items>>

\* end_episode: current_experience.write().await; without an episode it
\* returns Ok(None)
RaceEndLock(p) ==
    /\ call.tasks[p].pc = "idle"
    /\ call.ep = 0
    /\ call' = IF current = NoRow THEN call
               ELSE [call EXCEPT !.ep = p, !.tasks[p].pc = "load"]
    /\ lastOp' = IF current = NoRow THEN "end_none" ELSE "other"
    /\ UNCHANGED <<raceRest, experiences, expLinks, current, memories, vectors, items>>

\* end_episode: ep.end() and the importance over the memories store.load returns
RaceEndLoad(p) ==
    /\ call.tasks[p].pc = "load"
    /\ current' = Ended(memories, current)
    /\ call' = [call EXCEPT !.tasks[p].pc = "update",
                            !.tasks[p].counted = SeqRange(Loaded(memories, current.memory_ids))]
    /\ lastOp' = "other"
    /\ UNCHANGED <<raceRest, experiences, expLinks, memories, vectors, items>>

\* end_episode: store.update_experience(ep) and Ok(episode.take())
RaceEndUpdate(p) ==
    /\ call.tasks[p].pc = "update"
    /\ experiences' = [experiences EXCEPT ![current.id] = ExperienceRow(current)]
    /\ current' = NoRow
    /\ call' = [call EXCEPT !.ep = IF @ = p THEN 0 ELSE @, !.tasks[p] = IdleRacer]
    /\ lastOp' = "end_episode"
    /\ UNCHANGED <<raceRest, expLinks, memories, vectors, items>>

\* end_episode: store.update_experience(ep) returns Err, and so does the
\* call; the guard is dropped and the episode stays current
RaceEndUpdateFails(p) ==
    /\ call.tasks[p].pc = "update"
    /\ call' = [call EXCEPT !.ep = IF @ = p THEN 0 ELSE @, !.tasks[p] = IdleRacer]
    /\ lastOp' = "end_err"
    /\ UNCHANGED <<raceRest, experiences, expLinks, current, memories, vectors, items>>

InitRace ==
    /\ call = [op |-> "race", pc |-> "idle", wm |-> 0, ep |-> 0,
               tasks |-> [p \in Tasks |-> IdleRacer]]
    /\ memories = [id \in MemIds |-> NoRow]
    /\ associations = {}
    /\ ret = "new"
    /\ index = {} /\ vectors = {} /\ matched = {}
    /\ WmNew
    /\ CortexNew

NextRace ==
    \/ \E p \in Tasks, id \in AccessIds : RaceRememberSave(p, id)
    \/ \E p \in Tasks : RaceRememberWm(p)
    \/ \E p \in Tasks : RaceRememberEp(p)
    \/ \E p \in Tasks : RaceRememberLink(p)
    \/ \E p \in Tasks : RaceStartSave(p)
    \/ \E p \in Tasks : RaceStartSet(p)
    \/ \E p \in Tasks : RaceEndLock(p)
    \/ \E p \in Tasks : RaceEndLoad(p)
    \/ \E p \in Tasks : RaceEndUpdate(p)
    \/ \E p \in Tasks : RaceEndUpdateFails(p)

SpecRace == InitRace /\ [][NextRace]_vars


\* ------------------------------------------------------------------------
\* MemoryStore::delete next to create_association (src/src/store.rs)
\* ------------------------------------------------------------------------

\* the logical schema names a unique key on associations and no reference
\* from associations to memories: an insert is accepted whatever memories
\* are stored
ReferencesHold(mems, src, tgt) == TRUE

\* delete: DELETE FROM associations WHERE source_id = ? OR target_id = ?
DeleteAssociationsStep(id) ==
    /\ call.deleting = 0
    /\ HasRow(memories, id)
    /\ associations' = DeleteEdgesOf(associations, id)
    /\ call' = [call EXCEPT !.deleting = id]
    /\ lastOp' = "other"
    /\ UNCHANGED <<cortexVars, memories, ret, idxVars, items, now>>

\* delete: DELETE FROM memories WHERE id = ?, and Ok(())
DeleteMemoryStep ==
    /\ call.deleting # 0
    /\ memories' = DeleteRow(memories, call.deleting)
    /\ call' = [call EXCEPT !.deleting = 0, !.deleted = call.deleting]
    /\ ret' = "ok"
    /\ lastOp' = "delete"
    /\ UNCHANGED <<cortexVars, associations, idxVars, items, now>>

\* create_association from another task
ConcurrentAssociation(src, tgt, rel) ==
    /\ ReferencesHold(memories, src, tgt)
    /\ CreateAssociation(src, tgt, rel, DefaultWeight)

\* save of a memory that is not stored
ConcurrentSave(id) ==
    /\ ~HasRow(memories, id)
    /\ memories' = SaveRows(memories, NewMemory(id))
    /\ ret' = "ok"
    /\ lastOp' = "save"
    /\ UNCHANGED <<cortexVars, call, associations, idxVars, items, now>>

InitDeleteRace ==
    /\ call = [op |-> "delete", pc |-> "idle", deleting |-> 0, deleted |-> 0]
    /\ memories = [id \in MemIds |-> RowOf(NewMemory(id))]
    /\ associations = {}
    /\ ret = "new"
    /\ index = {} /\ vectors = {} /\ matched = {}
    /\ WmNew
    /\ CortexNew

NextDeleteRace ==
    \/ \E id \in MemIds : DeleteAssociationsStep(id)
    \/ DeleteMemoryStep
    \/ \E src \in MemIds, tgt \in MemIds, rel \in RelationTypes :
          ConcurrentAssociation(src, tgt, rel)
    \/ \E id \in MemIds : ConcurrentSave(id)

SpecDeleteRace == InitDeleteRace /\ [][NextDeleteRace]_vars


\* ------------------------------------------------------------------------
\* Working memory next to forget, delete and consolidate
\* ------------------------------------------------------------------------

\* MemoryCortex::remember of a memory with its timestamps
StaleRemember(m) ==
    /\ call.pc = "idle"
    /\ memories' = SaveAged(memories, m)
    /\ IF InsertConflicts(memories, m.id)
       THEN UNCHANGED <<vectors, items>>
       ELSE /\ vectors' = vectors \cup {m.id}
            /\ items' = WmRemember(items, m.id, NoExpiry)
    /\ lastOp' = "remember"
    /\ UNCHANGED <<cortexVars, call, associations, ret, index, matched, now>>

\* MemoryCortex::think_about: store.load returns the row whether or not it
\* is forgotten; wm.remember; store.update with last_accessed_at = now
StaleThinkAbout(id) ==
    /\ call.pc = "idle"
    /\ IF HasRow(memories, id)
       THEN /\ items' = WmRemember(items, id, NoExpiry)
            /\ memories' = [memories EXCEPT ![id].access_age = 0]
       ELSE UNCHANGED <<items, memories>>
    /\ lastOp' = "think_about"
    /\ UNCHANGED <<cortexVars, call, associations, ret, idxVars, now>>

\* MemoryStore::forget from a caller
StaleForget(id) ==
    /\ call.pc = "idle"
    /\ memories' = SetForgotten(memories, id, TRUE)
    /\ lastOp' = "forget"
    /\ UNCHANGED <<cortexVars, call, associations, ret, idxVars, items, now>>

\* MemoryStore::delete from a caller
StaleDelete(id) ==
    /\ call.pc = "idle"
    /\ associations' = DeleteEdgesOf(associations, id)
    /\ memories' = DeleteRow(memories, id)
    /\ lastOp' = "delete"
    /\ UNCHANGED <<cortexVars, call, ret, idxVars, items, now>>

\* the memories the callers remember: old ones of little importance, which
\* consolidate picks, and fresh ones, which it leaves
StaleInputs(id) ==
    {m \in AgedInputs(id) : m.memory_type = "preference" /\ m.importance = 20}

NextStale ==
    \/ \E id \in MemIds : \E m \in StaleInputs(id) : StaleRemember(m)
    \/ \E id \in MemIds : StaleThinkAbout(id)
    \/ \E id \in MemIds : StaleForget(id)
    \/ \E id \in MemIds : StaleDelete(id)
    \/ \E threshold \in Thresholds, max_age_days \in MaxAges :
           ConsolidateCall(threshold, max_age_days)
    \/ \E G \in SUBSET MemIds : ConsolidateSaveMemory(G)
    \/ ConsolidateSaveSummary
    \/ \E id \in MemIds : ConsolidateForget(id)
    \/ ConsolidateFail
    \/ ConsolidateReturn
    \/ ReadContext

SpecStale == InitConsolidate /\ [][NextStale]_vars


\* ------------------------------------------------------------------------
\* The graph expansion of hybrid_rank, seed by seed
\* (src/src/hybrid_retrieval.rs)
\* ------------------------------------------------------------------------
\* raw scores of the full-text results and of the vector hits, in hundredths
SeedScores == {40, 80}

\* bm25_map and vector_map: scores by id, for at most k ids
ScoreMaps(k) ==
    UNION {[S -> SeedScores] : S \in {T \in SUBSET GraphIds : Cardinality(T) <= k}}

\* for (id, score) in map.iter() { seed_ids.push(..) }: a HashMap iterates
\* in some order, here by ascending or by descending id
SeedEntries(map, up) ==
    LET ids == IdsToSeq(DOMAIN map)
        n == Len(ids)
    IN [i \in 1..n |->
           LET id == IF up THEN ids[i] ELSE ids[n + 1 - i]
           IN [id |-> id, score |-> map[id]]]

\* seed_ids: both maps pushed, sorted by descending score, the first ten
SeedIds(bm25_map, vector_map, up) ==
    Truncate(SortByScore(SeedEntries(bm25_map, up) \o SeedEntries(vector_map, up)),
             SeedLimit)

expandRest == <<cortexVars, ret, idxVars, items, now>>

\* a caller associates two memories before the search
ExpandAssociate(src, tgt, rel) ==
    /\ call.op = "expand" /\ call.pc = "build"
    /\ FreeEdgeIds(associations) # {}
    /\ associations' = UpsertAssociation(associations,
           NewAssociation(FreshEdgeId(associations), src, tgt, rel, DefaultWeight))
    /\ lastOp' = "other"
    /\ UNCHANGED <<call, memories, expandRest>>

\* hybrid_rank up to the loop over the seeds
ExpandStart(bm25_map, vector_map, up) ==
    /\ call.op = "expand" /\ call.pc = "build"
    /\ call' = [call EXCEPT !.pc = "loop",
                            !.seed_ids = SeedIds(bm25_map, vector_map, up)]
    /\ lastOp' = "other"
    /\ UNCHANGED <<memories, associations, expandRest>>

\* one round of the loop: get_neighbors(&seed_id, cfg.neighbor_depth) and
\* the loop over the neighbors
ExpandIterate ==
    /\ call.op = "expand" /\ call.pc = "loop"
    /\ call.seed_ids # <<>>
    /\ LET seed == Head(call.seed_ids)
           nb == GetNeighbors(memories, associations, seed.id, NeighborDepth, {})
       IN call' = [call EXCEPT !.seed_ids = Tail(@),
                               !.taken = Append(@, [id |-> seed.id, score |-> seed.score,
                                                    nb |-> nb]),
                               !.st = ExpandSeed(memories, seed, nb, NoFilter, @)]
    /\ lastOp' = "other"
    /\ UNCHANGED <<memories, associations, expandRest>>

\* the loop is over: graph_raw is what the scoring reads
ExpandDone ==
    /\ call.op = "expand" /\ call.pc = "loop"
    /\ call.seed_ids = <<>>
    /\ call' = [call EXCEPT !.pc = "done"]
    /\ lastOp' = "expanded"
    /\ UNCHANGED <<memories, associations, expandRest>>

InitExpand ==
    /\ memories = [id \in GraphIds |-> RowOf(NewMemory(id))]
    /\ associations = {}
    /\ ret = "ok"
    /\ index = {} /\ vectors = {} /\ matched = {}
    /\ WmNew
    /\ CortexNew
    /\ call = [op |-> "expand", pc |-> "build", seed_ids |-> <<>>, taken |-> <<>>,
               st |-> [expanded |-> {}, graph_raw |-> [n \in GraphIds |-> 0]]]

NextExpand ==
    \/ \E src \in GraphIds : \E tgt \in GraphIds \ {src} : \E rel \in RelationTypes :
           ExpandAssociate(src, tgt, rel)
    \/ \E bm25_map \in ScoreMaps(2), vector_map \in ScoreMaps(1), up \in BOOLEAN :
           ExpandStart(bm25_map, vector_map, up)
    \/ ExpandIterate
    \/ ExpandDone

SpecExpand == InitExpand /\ [][NextExpand]_vars


\* ------------------------------------------------------------------------
\* MemoryStore::get_neighbors, round by round (src/src/store.rs)
\* ------------------------------------------------------------------------
\* the memories of the traversed graph
TraverseIds == {1, 2, 3}

traverseRest == <<cortexVars, memories, idxVars, items, now>>

\* a loop that runs until the frontier is empty, whatever the depth
LoopOverWhenEmpty(c) == c.frontier = <<>>

\* for _ in 0..depth { if frontier.is_empty() { break; } .. }
LoopOver(c) == c.rounds = c.depth \/ c.frontier = <<>>

\* a caller associates two memories, before or during a traversal; source
\* and target may be the same memory
TraverseAssociate(src, tgt) ==
    /\ call.op = "get_neighbors" /\ call.pc # "done"
    /\ FreeEdgeIds(associations) # {}
    /\ associations' = UpsertAssociation(associations,
           NewAssociation(FreshEdgeId(associations), src, tgt, "related_to", DefaultWeight))
    /\ lastOp' = "other"
    /\ UNCHANGED <<call, ret, traverseRest>>

\* get_neighbors up to the loop: visited holds memory_id, the frontier is
\* memory_id
NeighborsStart(memory_id, depth) ==
    /\ call.op = "get_neighbors" /\ call.pc = "idle"
    /\ call' = [call EXCEPT !.pc = "round", !.memory_id = memory_id, !.depth = depth,
                            !.frontier = <<memory_id>>,
                            !.st = [visited |-> {memory_id}, next_frontier |-> <<>>,
                                    all_associations |-> <<>>]]
    /\ lastOp' = "other"
    /\ UNCHANGED <<associations, ret, traverseRest>>

\* the next round of the loop begins: let mut next_frontier = Vec::new()
NeighborsRound ==
    /\ call.op = "get_neighbors" /\ call.pc = "round"
    /\ ~LoopOver(call)
    /\ call' = [call EXCEPT !.pc = "node", !.rounds = @ + 1, !.pos = 1,
                            !.st.next_frontier = <<>>]
    /\ lastOp' = "other"
    /\ UNCHANGED <<associations, ret, traverseRest>>

\* get_associations(node_id).await? and the loop over its rows, for the
\* next node of the frontier
NeighborsNode ==
    /\ call.op = "get_neighbors" /\ call.pc = "node"
    /\ call.pos <= Len(call.frontier)
    /\ LET node_id == call.frontier[call.pos]
       IN call' = [call EXCEPT !.pos = @ + 1,
                               !.expanded = Append(@, node_id),
                               !.st = VisitAssocs(@, node_id,
                                                  GetAssociations(associations, node_id))]
    /\ lastOp' = "other"
    /\ UNCHANGED <<associations, ret, traverseRest>>

\* get_associations returns a storage error and `?` leaves get_neighbors
NeighborsFail ==
    /\ call.op = "get_neighbors" /\ call.pc = "node"
    /\ call.pos <= Len(call.frontier)
    /\ call' = [call EXCEPT !.pc = "done"]
    /\ ret' = "err"
    /\ lastOp' = "other"
    /\ UNCHANGED <<associations, traverseRest>>

\* frontier = next_frontier
NeighborsAdvance ==
    /\ call.op = "get_neighbors" /\ call.pc = "node"
    /\ call.pos > Len(call.frontier)
    /\ call' = [call EXCEPT !.pc = "round", !.frontier = call.st.next_frontier]
    /\ lastOp' = "other"
    /\ UNCHANGED <<associations, ret, traverseRest>>

\* after the loop: the associations without repeats and the loaded,
\* not forgotten neighbors
NeighborsReturn ==
    /\ call.op = "get_neighbors" /\ call.pc = "round"
    /\ LoopOver(call)
    /\ call' = [call EXCEPT !.pc = "done"]
    /\ ret' = [neighbors |-> SelectSeq(IdsToSeq(call.st.visited \ {call.memory_id}),
                                       LAMBDA id : LoadsLive(memories, id)),
               associations |-> RetainFirst(call.st.all_associations, {})]
    /\ lastOp' = "get_neighbors"
    /\ UNCHANGED <<associations, traverseRest>>

InitTraverse ==
    /\ memories = [id \in TraverseIds |-> RowOf(NewMemory(id))]
    /\ associations = {}
    /\ ret = "ok"
    /\ index = {} /\ vectors = {} /\ matched = {}
    /\ WmNew
    /\ CortexNew
    /\ call = [op |-> "get_neighbors", pc |-> "idle", memory_id |-> 0, depth |-> 0,
               rounds |-> 0, pos |-> 0, frontier |-> <<>>, expanded |-> <<>>,
               st |-> [visited |-> {}, next_frontier |-> <<>>, all_associations |-> <<>>]]

NextTraverse ==
    \/ \E src \in TraverseIds, tgt \in TraverseIds : TraverseAssociate(src, tgt)
    \/ \E memory_id \in TraverseIds, depth \in Depths : NeighborsStart(memory_id, depth)
    \/ NeighborsRound
    \/ NeighborsNode
    \/ NeighborsFail
    \/ NeighborsAdvance
    \/ NeighborsReturn

\* the runtime keeps polling the future of a started call, and every query
\* of the pool returns
TraverseStep ==
    NeighborsRound \/ NeighborsNode \/ NeighborsAdvance \/ NeighborsReturn

SpecTraverse == InitTraverse /\ [][NextTraverse]_vars /\ WF_vars(TraverseStep)


\* ------------------------------------------------------------------------
\* VersioningEngine::record_version and rollback (src/src/versioning.rs)
\* ------------------------------------------------------------------------
\* VersioningConfig::max_versions_per_memory as set by the builder, with
\* auto_prune on; the versions the callers save in all
MaxVersionsPerMemory == 2
MaxSaves == 4

\* version numbers a caller asks rollback for
RollbackTargets == 1..(MaxVersionsPerMemory + 1)

IdleVersioner == [pc |-> "idle", len |-> 0, target |-> 0]

versionRest == <<cortexVars, memories, associations, idxVars, items, now>>

\* VersionRepository::save_version: one more row, with its own version_id
SaveVersion(c, version_number) ==
    [c EXCEPT !.versions = @ \cup {[version_id |-> c.next_id,
                                    version_number |-> version_number]},
              !.next_id = @ + 1,
              !.assigned = @ \cup {version_number}]

\* VersionRepository::prune_versions(memory_id, keep_count): the old
\* versions go, the keep_count versions saved last stay
PruneVersions(versions, keep_count) ==
    {v \in versions :
        Cardinality({w \in versions : w.version_id > v.version_id}) < keep_count}

\* record_version: let versions = get_memory_versions(&memory.id).await?
RecordLoad(p) ==
    /\ call.op = "version" /\ call.tasks[p].pc = "idle"
    /\ call.next_id <= MaxSaves
    /\ call' = [call EXCEPT !.tasks[p] = [pc |-> "record_save",
                                          len |-> Cardinality(call.versions),
                                          target |-> 0]]
    /\ lastOp' = "other"
    /\ UNCHANGED <<ret, versionRest>>

\* version_number = versions.len() + 1; save_version(&version).await?
RecordSave(p) ==
    /\ call.op = "version" /\ call.tasks[p].pc = "record_save"
    /\ call' = [SaveVersion(call, call.tasks[p].len + 1)
                   EXCEPT !.tasks[p].pc = "record_prune"]
    /\ lastOp' = "save_version"
    /\ UNCHANGED <<ret, versionRest>>

\* the auto-prune of record_version and its return; to_prune larger than
\* max_versions_per_memory makes the usize subtraction overflow: a panic
\* with overflow checks, no version pruned without them
RecordPrune(p) ==
    /\ call.op = "version" /\ call.tasks[p].pc = "record_prune"
    /\ LET len == call.tasks[p].len
           to_prune == len - MaxVersionsPerMemory + 1
       IN IF len >= MaxVersionsPerMemory /\ to_prune <= MaxVersionsPerMemory
          THEN /\ call' = [call EXCEPT !.versions = PruneVersions(@,
                                           MaxVersionsPerMemory - to_prune),
                                       !.tasks[p] = IdleVersioner]
               /\ ret' = "ok"
          ELSE /\ call' = [call EXCEPT !.tasks[p] = IdleVersioner]
               /\ ret' \in IF len >= MaxVersionsPerMemory THEN {"ok", "panic"} ELSE {"ok"}
    /\ lastOp' = "record_version"
    /\ UNCHANGED versionRest

\* rollback: get_history and the search for the target version
RollbackLoad(p, version_number) ==
    /\ call.op = "version" /\ call.tasks[p].pc = "idle"
    /\ call.next_id <= MaxSaves
    /\ IF \E v \in call.versions : v.version_number = version_number
       THEN /\ call' = [call EXCEPT !.tasks[p] = [pc |-> "rollback_save",
                                                  len |-> Cardinality(call.versions),
                                                  target |-> version_number]]
            /\ lastOp' = "other"
            /\ UNCHANGED ret
       ELSE /\ ret' = "NotFound"
            /\ lastOp' = "rollback_missing"
            /\ UNCHANGED call
    /\ UNCHANGED versionRest

\* version_number: versions.len() + 1; save_version(&rollback_version)
RollbackSave(p) ==
    /\ call.op = "version" /\ call.tasks[p].pc = "rollback_save"
    /\ call' = [SaveVersion(call, call.tasks[p].len + 1)
                   EXCEPT !.tasks[p] = IdleVersioner]
    /\ ret' = "ok"
    /\ lastOp' = "save_version"
    /\ UNCHANGED versionRest

InitVersions ==
    /\ memories = [id \in MemIds |-> NoRow]
    /\ associations = {}
    /\ ret = "new"
    /\ index = {} /\ vectors = {} /\ matched = {}
    /\ WmNew
    /\ CortexNew
    /\ call = [op |-> "version", versions |-> {}, assigned |-> {}, next_id |-> 1,
               tasks |-> [p \in Tasks |-> IdleVersioner]]

NextVersions ==
    \/ \E p \in Tasks : RecordLoad(p)
    \/ \E p \in Tasks : RecordSave(p)
    \/ \E p \in Tasks : RecordPrune(p)
    \/ \E p \in Tasks : \E n \in RollbackTargets : RollbackLoad(p, n)
    \/ \E p \in Tasks : RollbackSave(p)

SpecVersions == InitVersions /\ [][NextVersions]_vars

\* ------------------------------------------------------------------------
\* Working-memory properties
\* ------------------------------------------------------------------------
ItemIds(s) == {s[i].memory_id : i \in 1..Len(s)}
PinnedIds(s) == {s[i].memory_id : i \in {k \in 1..Len(s) : s[k].pinned}}
ItemOf(s, id) == s[Find(s, id)]

\* C1: after any working-memory operation the number of items is at most
\* max(max_items, number of pinned items)
C1_Capacity == Len(items) <= Max2(MaxItems, PinnedCount(items))

\* a remember has just trimmed the list while a pinned item was held
C1_Witness ==
    lastOp = "remember_trim" /\ Len(items) = MaxItems /\ PinnedCount(items) >= 1

\* C2: a remember (of any memory, with its cleanup) or a decay keeps every
\* pinned item in working memory, still pinned, and decay leaves the attention
\* score of a pinned item unchanged
C2_PinnedRetained ==
    [][ \A id \in PinnedIds(items) :
          /\ lastOp' \in {"remember", "remember_trim", "decay"}
                => id \in PinnedIds(items')
          /\ lastOp' = "decay"
                => /\ id \in ItemIds(items')
                   /\ ItemOf(items', id).attention_score
                        = ItemOf(items, id).attention_score ]_vars

\* a remember has just evicted a newcomer in favour of a pinned item whose
\* attention is lower and whose ttl has run out
C2_Witness ==
    /\ lastOp = "remember_trim"
    /\ \E i \in 1..Len(items) :
          /\ items[i].pinned
          /\ items[i].attention_score < InitialAttention
          /\ ~NotExpired(items[i])

\* ------------------------------------------------------------------------
\* Store properties
\* ------------------------------------------------------------------------

\* C7: save is an upsert by explicit id: a save of a memory whose id is
\* already stored succeeds without an error and leaves the row of that id
\* equal to the saved memory
C7_SaveIsUpsert ==
    [][ \A id \in MemIds :
          (HasRow(memories, id) /\ StoreSave(NewMemory(id)))
              => /\ ret' = "ok"
                 /\ memories'[id] = RowOf(NewMemory(id)) ]_vars

\* C9: every (source_id, target_id, relation_type) triple has at most one
\* edge; creating the same association a second time leaves the set that the
\* first creation left; creating an association whose triple is stored only
\* sets the weight of the stored edge
C9_AssociateIdempotent ==
    /\ \A e1 \in associations, e2 \in associations : SameTriple(e1, e2) => e1 = e2
    /\ \A src \in MemIds, tgt \in MemIds, rel \in RelationTypes :
         LET once == UpsertAssociation(associations,
                         NewAssociation(FreshEdgeId(associations), src, tgt, rel, DefaultWeight))
             twice == UpsertAssociation(once,
                         NewAssociation(FreshEdgeId(once), src, tgt, rel, DefaultWeight))
         IN twice = once
    /\ \A e \in associations, w \in Weights :
         UpsertAssociation(associations,
                           NewAssociation(FreshEdgeId(associations), e.source_id,
                                          e.target_id, e.relation_type, w))
             = (associations \ {e}) \cup {[e EXCEPT !.weight = w]}

\* a second creation of a stored triple ran, next to another edge between
\* the same two memories
C9_Witness ==
    /\ lastOp = "assoc_update"
    /\ \E e1 \in associations, e2 \in associations :
         /\ e1 # e2
         /\ e1.source_id = e2.source_id
         /\ e1.target_id = e2.target_id
         /\ e1.weight # e2.weight

\* ------------------------------------------------------------------------
\* Graph properties
\* ------------------------------------------------------------------------
Adjacent(assocs, a, b) ==
    \E e \in assocs : \/ (e.source_id = a /\ e.target_id = b)
                       \/ (e.source_id = b /\ e.target_id = a)

\* the ids within d hops of seed along paths whose ids after the seed are
\* not excluded
RECURSIVE Within(_, _, _, _)
Within(assocs, seed, d, excl) ==
    IF d = 0 THEN {seed}
    ELSE LET W == Within(assocs, seed, d - 1, excl)
         IN W \cup {n \in GraphIds \ excl : \E m \in W : Adjacent(assocs, m, n)}

NoRepeat(q) == \A i \in 1..Len(q), j \in 1..Len(q) : q[i] = q[j] => i = j

NeighborsRight(seed, d, excl) ==
    LET r == GetNeighbors(memories, associations, seed, d, excl)
        edgeIds == [i \in 1..Len(r.associations) |-> r.associations[i].id]
    IN /\ NoRepeat(r.neighbors)
       /\ SeqRange(r.neighbors)
             = {n \in Within(associations, seed, d, excl) \ (excl \cup {seed}) :
                   LoadsLive(memories, n)}
       /\ d = 0 => r.neighbors = <<>>
       /\ NoRepeat(edgeIds)

\* C10: get_neighbors(id, depth, exclude) returns, each once, exactly the
\* stored, not forgotten memories other than id and the excluded ids that
\* are within depth undirected hops of id along paths that avoid the
\* excluded ids; with depth 0 it returns none; no edge id is returned twice
C10_Neighbors ==
    \A seed \in GraphIds, d \in Depths, excl \in Excludes : NeighborsRight(seed, d, excl)

\* a two-hop neighbour is returned, a forgotten neighbour is left out, and
\* an edge that the traversal meets from both of its ends is returned once
C10_Witness ==
    \E seed \in GraphIds :
        LET r1 == GetNeighbors(memories, associations, seed, 1, {})
            r2 == GetNeighbors(memories, associations, seed, MaxDepth, {})
        IN /\ SeqRange(r1.neighbors) # SeqRange(r2.neighbors)
           /\ \E n \in GraphIds : /\ Adjacent(associations, seed, n)
                                   /\ HasRow(memories, n) /\ memories[n].forgotten
           /\ Len(r2.associations) = MaxEdges

\* ------------------------------------------------------------------------
\* Retrieval properties
\* ------------------------------------------------------------------------
ResultIds(res) == {res[i].id : i \in 1..Len(res)}

WellFormed(res, k, filter) ==
    /\ Len(res) <= k
    /\ \A i \in 1..Len(res) :
         /\ res[i].rank = i
         /\ ~res[i].memory.forgotten
         /\ filter = NoFilter \/ res[i].memory.memory_type = filter
    /\ \A i \in 1..(Len(res) - 1) : res[i].score >= res[i + 1].score

\* C6: recall(q, k) and hybrid_search with max_results = k return at most k
\* results, ranked 1, 2, ..., n in the returned order, by non-increasing
\* score, none of them forgotten, all of the type of the filter when one is
\* given
C6_ResultShape ==
    \A q \in Queries, k \in Ks, tb \in EndOrders :
        /\ WellFormed(Recall(memories, index, q, k, tb), k, NoFilter)
        /\ \A filter \in Filters :
             WellFormed(HybridSearch(memories, associations, index, vectors,
                                     q, k, filter, tb), k, filter)

\* recall truncates two matches to one, and hybrid_search with a type filter
\* leaves out a graph neighbor of another type
C6_Witness ==
    \E q \in Queries, tb \in EndOrders :
        /\ Len(Recall(memories, index, q, NumMems, tb)) >= 2
        /\ Len(Recall(memories, index, q, 1, tb)) = 1
        /\ ResultIds(HybridSearch(memories, associations, index, vectors,
                                  q, NumMems, "fact", tb))
             # ResultIds(HybridSearch(memories, associations, index, vectors,
                                      q, NumMems, NoFilter, tb))
        /\ associations # {}

\* ------------------------------------------------------------------------
\* MemorySystem properties
\* ------------------------------------------------------------------------
Forgotten(id) == HasRow(memories, id) /\ memories[id].forgotten

NeverReturned(id) ==
    \A q \in Queries, k \in Ks, tb \in EndOrders :
        /\ id \notin ResultIds(SearchFulltext(memories, index, q, NoFilter, k, tb))
        /\ id \notin ResultIds(Recall(memories, index, q, k, tb))
        /\ \A filter \in Filters :
             id \notin ResultIds(HybridSearch(memories, associations, index, vectors,
                                              q, k, filter, tb))

\* C3: while a memory is forgotten no search, recall or hybrid_search returns
\* it; when restore succeeds, a search that returned the memory before the
\* forget returns it again, whatever ran in between
C3_ForgetRestore ==
    /\ [](\A id \in MemIds : Forgotten(id) => NeverReturned(id))
    /\ [][\A id \in MemIds :
             (FlagAffected(memories, id, FALSE) /\ SysRestore(id) /\ id \in matched)
                 => FoundByOwnContent(memories', index', id)]_vars

IndexedMatches(idx, q) == {d \in idx : DocMatches(d, q, NoFilter)}

AsSimilar(vecs, id) ==
    {v \in vecs \ {id} :
        Similarity[StoredVector[id]][StoredVector[v]]
            >= Similarity[StoredVector[id]][StoredVector[id]]}

SaveSucceeds(m) == ~InsertConflicts(memories, m.id) /\ SysSave(m)

\* C4 as stated: after save(m) succeeds for a memory built by Memory::new,
\* load(m.id) returns m with forgotten = false, a full-text search for a term
\* of m.content returns m, and a vector search for m.content returns m among
\* the top k
C4_SaveThenFound ==
    [][\A id \in MemIds :
          SaveSucceeds(NewMemory(id)) =>
            /\ memories'[id] = RowOf(NewMemory(id))
            /\ ~memories'[id].forgotten
            /\ \A t \in ContentOf(id), k \in Ks, tb \in TieOrders :
                 /\ id \in ResultIds(SearchFulltext(memories', index', {t}, NoFilter, k, tb))
                 /\ id \in ResultIds(VectorSearch(vectors', Embed(ContentOf(id)), k, tb))]_vars

\* C4, amended: after save(m) succeeds for a memory built by Memory::new,
\* load(m.id) returns m with forgotten = false; a full-text search for a
\* term of m.content with max_results = k returns m if at most k indexed
\* documents match the term; a vector search for m.content returns m among
\* the top k if fewer than k other stored vectors are as similar to the
\* query as the vector of m
C4_SaveThenFoundWithinLimit ==
    [][\A id \in MemIds :
          SaveSucceeds(NewMemory(id)) =>
            /\ memories'[id] = RowOf(NewMemory(id))
            /\ ~memories'[id].forgotten
            /\ \A t \in ContentOf(id), k \in Ks, tb \in TieOrders :
                 /\ Cardinality(IndexedMatches(index', {t})) <= k
                      => id \in ResultIds(SearchFulltext(memories', index', {t},
                                                         NoFilter, k, tb))
                 /\ Cardinality(AsSimilar(vectors', id)) < k
                      => id \in ResultIds(VectorSearch(vectors', Embed(ContentOf(id)), k, tb))]_vars

\* a saved memory is found by a search of one result although a second
\* indexed document matches the term, and is the first vector hit
C4_Witness ==
    \E id \in MemIds :
        /\ LoadsLive(memories, id) /\ id \in index /\ id \in vectors
        /\ \E t \in ContentOf(id) :
             /\ Cardinality(IndexedMatches(index, {t})) = 1
             /\ \A tb \in TieOrders :
                  id \in ResultIds(SearchFulltext(memories, index, {t}, NoFilter, 1, tb))
        /\ \E t \in ContentOf(id) : Cardinality(IndexedMatches(index, {t})) = NumMems
        /\ Cardinality(vectors) = NumMems
        /\ \A tb \in TieOrders :
             id \in ResultIds(VectorSearch(vectors, Embed(ContentOf(id)), 1, tb))

Involves(a, id) == a.source_id = id \/ a.target_id = id

ClaimedEffects(c) ==
    IF c.attached THEN <<"store", "index", "vector", "wm">>
    ELSE <<"store", "index", "wm">>

IsPrefix(p, q) == Len(p) <= Len(q) /\ \A i \in 1..Len(p) : p[i] = q[i]

\* C5: a write through remember or save makes its effects observable in the
\* order store row, index document, vector entry (when a backend is
\* attached), working-memory item; no step runs before an earlier one, and a
\* write that returns Ok has made all of them
C5_WriteOrder ==
    call.op \in {"remember", "save"} =>
        /\ IsPrefix(call.effects, ClaimedEffects(call))
        /\ call.pc = "ok" => call.effects = ClaimedEffects(call)

\* ------------------------------------------------------------------------
\* Episode properties
\* ------------------------------------------------------------------------
\* the persisted episodes whose ended_at is unset
OpenEpisodes == {e \in EpIds : experiences[e] # NoRow /\ experiences[e].ended_at = NotEnded}

\* C11: after any sequence of start_episode / end_episode calls at most one
\* persisted episode has ended_at unset, and it is the current one
C11_OneOpenEpisode ==
    /\ Cardinality(OpenEpisodes) <= 1
    /\ \A e \in OpenEpisodes : current # NoRow /\ current.id = e

\* the ids of the episode that still have a row in the store
LoadedIds(ep) == {id \in SeqRange(ep.memory_ids) : HasRow(memories, id)}

RECURSIVE TotalImportance(_)
TotalImportance(S) ==
    IF S = {} THEN 0
    ELSE LET id == CHOOSE x \in S : TRUE
         IN DynamicImportance(memories[id]) + TotalImportance(S \ {id})

\* v is the mean of the dynamic importance of the ids in S, rounded down
IsMean(v, S) ==
    /\ v * Cardinality(S) <= TotalImportance(S)
    /\ TotalImportance(S) < (v + 1) * Cardinality(S)

LinkRows(e, id) == {l \in expLinks : l.experience_id = e /\ l.memory_id = id}

\* C13: the pair (episode, memory) is linked at most once, in the episode's
\* memory_ids and in the persisted rows, however often the memory is
\* remembered during the episode, and a link exists only for an episode
\* that was current
C13_LinkOnce ==
    /\ \A e \in EpIds, id \in MemIds : Cardinality(LinkRows(e, id)) <= 1
    /\ current # NoRow => NoRepeat(current.memory_ids)
    /\ \A l \in expLinks : experiences[l.experience_id] # NoRow

\* ------------------------------------------------------------------------
\* Consolidation properties
\* ------------------------------------------------------------------------
NonForgotten(mems) == {id \in DOMAIN mems : HasRow(mems, id) /\ ~mems[id].forgotten}

\* the summary memories that after holds and before did not
NewSummaryMemories(before, after) ==
    {s \in DOMAIN after :
        ~HasRow(before, s) /\ HasRow(after, s) /\ after[s].memory_type = "summary"}

\* the candidates of one type
TypeGroup(mems, cands, t) == {id \in cands : mems[id].memory_type = t}

RECURSIVE SumOver(_, _)
SumOver(f, S) ==
    IF S = {} THEN 0
    ELSE LET x == CHOOSE y \in S : TRUE IN f[x] + SumOver(f, S \ {x})

Conserved(before, after, threshold, max_age_days) ==
    LET cands == Candidates(before, threshold, max_age_days)
        types == {"identity", "preference", "summary"}
        saved == [t \in types |->
                    IF Cardinality(TypeGroup(before, cands, t)) >= 2
                    THEN Cardinality(TypeGroup(before, cands, t)) - 1 ELSE 0]
    IN /\ \A t \in types :
             LET G == TypeGroup(before, cands, t)
             IN IF Cardinality(G) >= 2
                THEN /\ \A id \in G : after[id].forgotten
                     /\ Cardinality({s \in NewSummaryMemories(before, after) :
                                        after[s].original_ids = G}) = 1
                ELSE \A id \in G : after[id] = before[id]
       /\ \A s \in NewSummaryMemories(before, after) :
             \E t \in types : /\ Cardinality(TypeGroup(before, cands, t)) >= 2
                              /\ after[s].original_ids = TypeGroup(before, cands, t)
       /\ \A id \in DOMAIN before :
             (HasRow(before, id) /\ id \notin cands) => after[id] = before[id]
       /\ Cardinality(NonForgotten(after)) =
              Cardinality(NonForgotten(before)) - SumOver(saved, types)

SummaryMemories == {s \in ConsIds : HasRow(memories, s) /\ memories[s].memory_type = "summary"}

AllForgotten(G) == \A id \in G : HasRow(memories, id) /\ memories[id].forgotten

\* C15: whenever no consolidate call is running, also after one that failed
\* partway, a group has its Summary memory and its MemorySummary record
\* exactly when all its originals are forgotten: each summary memory has its
\* record and forgotten originals, and each record has its summary memory
C15_AllOrNothing ==
    call.pc = "idle" =>
        /\ \A s \in SummaryMemories :
              /\ AllForgotten(memories[s].original_ids)
              /\ \E r \in summaries : r.original_memory_ids = memories[s].original_ids
        /\ \A r \in summaries :
              /\ AllForgotten(r.original_memory_ids)
              /\ \E s \in SummaryMemories : memories[s].original_ids = r.original_memory_ids

\* ------------------------------------------------------------------------
\* Maintenance properties
\* ------------------------------------------------------------------------
\* the groups of at least two Preference memories older than
\* consolidation_age_days and below consolidation_threshold
PreferenceGroups ==
    {G \in Groups(memories, Candidates(memories, ConsolidationThreshold, ConsolidationAgeDays)) :
        \A id \in G : memories[id].memory_type = "preference"}

\* C16: run_maintenance with consolidation enabled consolidates: a group of
\* old Preference memories below the consolidation threshold ends up
\* forgotten, with one new Summary memory that stands for it
C16_MaintenanceConsolidates ==
    [][lastOp' = "maintenance_consolidation" =>
         \A G \in PreferenceGroups :
             /\ \A id \in G : memories'[id].forgotten
             /\ \E s \in NewSummaryMemories(memories, memories') :
                    memories'[s].original_ids = G]_vars

MaintenanceStep == lastOp' \in {"maintenance", "maintenance_consolidation"}

\* C17: run_maintenance leaves the importance and the forgotten flag of an
\* Identity memory alone, deletes no row, and forgets a memory only if it
\* was non-forgotten, is not Identity, was created more than min_age_days
\* ago and has, when it is forgotten, an importance below prune_threshold
C17_MaintenanceSafe ==
    [][MaintenanceStep =>
         \A id \in ConsIds :
             HasRow(memories, id) =>
                 /\ HasRow(memories', id)
                 /\ memories[id].memory_type = "identity" =>
                        /\ memories'[id].importance = memories[id].importance
                        /\ memories'[id].forgotten = memories[id].forgotten
                 /\ (memories'[id].forgotten /\ ~memories[id].forgotten) =>
                        /\ memories'[id].importance < PruneThreshold
                        /\ memories[id].memory_type # "identity"
                        /\ memories[id].age > MinAgeDays]_vars

\* maintenance has run over an old Identity memory of low importance and a
\* Preference memory that it has forgotten after decaying it below the
\* threshold
C17_Witness ==
    /\ lastOp \in {"maintenance", "maintenance_consolidation"}
    /\ \E a \in MemIds, b \in MemIds :
          /\ HasRow(memories, a) /\ HasRow(memories, b)
          /\ memories[a].memory_type = "identity"
          /\ memories[a].importance < PruneThreshold
          /\ memories[a].age > MinAgeDays
          /\ ~memories[a].forgotten
          /\ memories[b].memory_type = "preference"
          /\ memories[b].forgotten
          /\ memories[b].updated_age = 0

\* ------------------------------------------------------------------------
\* Decay and pinning
\* ------------------------------------------------------------------------

\* the unpinned item at position k does not gain attention in the step
Fades(k) ==
    \A j \in 1..Len(items') :
        items'[j].memory_id = items[k].memory_id
            => items'[j].attention_score <= items[k].attention_score

\* the pinned item at position k is kept as it is by the step
Kept(k) == items[k] \in SeqRange(items')

\* every item left is pinned
OnlyPinned == \A k \in 1..Len(items) : items[k].pinned

\* C18 as stated: a decay() never raises the attention of an unpinned item and
\* keeps every pinned item unchanged and returned by get_context(), and with
\* decay() called again and again every unpinned item is removed after
\* finitely many calls.
C18_PinnedAlwaysShown ==
    /\ [][lastOp' = "decay" =>
            \A k \in 1..Len(items) :
                IF items[k].pinned
                THEN Kept(k) /\ items[k] \in SeqRange(GetContext(items'))
                ELSE Fades(k)]_vars
    /\ <>[]OnlyPinned

\* C18 amended: a decay() never raises the attention of an unpinned item and
\* keeps every pinned item unchanged; a pinned item whose expires_at is unset
\* or still in the future is returned by get_context() after it; and with
\* decay() called again and again every unpinned item is removed after
\* finitely many calls.
C18_DecayFades ==
    /\ [][lastOp' = "decay" =>
            \A k \in 1..Len(items) :
                IF items[k].pinned
                THEN /\ Kept(k)
                     /\ NotExpired(items[k]) => items[k] \in SeqRange(GetContext(items'))
                ELSE Fades(k)]_vars
    /\ <>[]OnlyPinned

\* after a decay() at a later time only pinned items are left, and one of
\* them is returned by get_context()
C18_Witness ==
    /\ lastOp = "decay"
    /\ OnlyPinned
    /\ \E k \in 1..Len(items) : items[k] \in SeqRange(GetContext(items))
    /\ now > 0

\* ------------------------------------------------------------------------
\* get_context
\* ------------------------------------------------------------------------

\* r holds exactly the live items of s, pinned ones first and attention
\* descending among the pinned and among the unpinned
ContextRight(s, r) ==
    /\ SeqRange(r) = {x \in SeqRange(s) : NotExpired(x)}
    /\ Len(r) = Cardinality({k \in 1..Len(s) : NotExpired(s[k])})
    /\ \A i, j \in 1..Len(r) :
          i < j => /\ r[j].pinned => r[i].pinned
                   /\ r[i].pinned = r[j].pinned
                        => r[i].attention_score >= r[j].attention_score

\* C19: get_context() returns exactly the items whose expires_at is unset or
\* still in the future, every pinned item before every unpinned one and
\* attention descending within each group, and leaves working memory as it was.
C19_GetContext ==
    [][lastOp' = "get_context" => items' = items /\ ContextRight(items, ret')]_vars

\* get_context() returned a pinned item before an unpinned one that working
\* memory holds in the other order, after time has passed
C19_Witness ==
    /\ lastOp = "get_context"
    /\ now > 0
    /\ Len(ret) = 2
    /\ ret[1].pinned /\ ~ret[2].pinned
    /\ items = <<ret[2], ret[1]>>

\* ------------------------------------------------------------------------
\* Token budget
\* ------------------------------------------------------------------------

\* C20: the string ContextWindow::build returns never has an estimated token
\* count above max_tokens.
C20_WithinBudget ==
    (call.op = "build" /\ call.pc = "done") => EstimateTokens(ret) <= call.window.max_tokens

\* ------------------------------------------------------------------------
\* Failure of a downstream write step
\* ------------------------------------------------------------------------

\* C21: when the index or vector step of a write fails after the store write,
\* the next thing the call does is return the error: the row written by
\* store.save is still there and no later step (vector entry, working-memory
\* item) is performed.
C21_FailedStepReported ==
    [][lastOp = "step_failed" =>
          /\ call' = NoCall
          /\ ret' = "err"
          /\ HasRow(memories', call.id)
          /\ memories' = memories
          /\ index' = index /\ vectors' = vectors /\ items' = items]_vars

\* save(m) with a vector backend attached failed in index_memory: the row is
\* stored, no vector was written
C21_Witness ==
    /\ lastOp = "step_failed"
    /\ call.op = "save" /\ call.attached
    /\ call.pc = "err"
    /\ call.effects = <<"store">>
    /\ HasRow(memories, call.id)
    /\ call.id \notin vectors

\* ------------------------------------------------------------------------
\* Hybrid retrieval when the vector backend fails
\* ------------------------------------------------------------------------

\* the ranking from BM25, graph, importance and recency alone: hybrid_rank
\* with no vector hit
WithoutVectors(q, k, filter) ==
    {IdSeq(HybridRank(memories, associations,
                      SearchFulltext(memories, index, q, filter, Max2(Bm25Limit, k), tb),
                      <<>>, k, filter, tb)) : tb \in TieOrders}

\* C22: a hybrid_search during which the embedding step or the vector backend
\* returns an error does not fail; it returns the ranking computed with no
\* vector contribution.
C22_DegradesGracefully ==
    [][lastOp' = "hybrid_vector_error" =>
          /\ ret'.outcome = "ok"
          /\ ret'.ids \in WithoutVectors(ret'.q, ret'.k, ret'.filter)]_vars

\* ------------------------------------------------------------------------
\* Reads leave everything as it was
\* ------------------------------------------------------------------------

C27_Deterministic ==
    [][(/\ lastOp = "hybrid_search" /\ lastOp' = "hybrid_search"
        /\ ret'.q = ret.q /\ ret'.k = ret.k /\ ret'.filter = ret.filter)
          => ret'.ids = ret.ids]_vars

\* ------------------------------------------------------------------------
\* Errors inside remember
\* ------------------------------------------------------------------------

\* the link row of memory m in episode ep is stored
LinkStored(links, ep, m) ==
    \E l \in links : l.experience_id = ep /\ l.memory_id = m

\* C23: a remember that returns Ok with an episode open has persisted the
\* link of every memory the in-memory episode lists; a link that could not be
\* persisted makes the call return the error.
C23_LinkErrorReported ==
    [][(lastOp' \in {"remember", "remember_link_failed"} /\ ret' = "ok" /\ current' # NoRow)
          => \A m \in SeqRange(current'.memory_ids) : LinkStored(expLinks', current'.id, m)]_vars

\* ------------------------------------------------------------------------
\* Operations on an id the store does not hold
\* ------------------------------------------------------------------------

\* C24: update, forget and restore of an id absent from the store fail with
\* NotFound and leave the store, the full-text index and the vectors as they
\* were.
C24_AbsentIdNotFound ==
    [][\A id \in MemIds :
          ~HasRow(memories, id) =>
            /\ \A m \in MemoryInputs(id) :
                 SysUpdate(m) => /\ UpdateReturns(memories, m) = "not_found"
                                 /\ memories' = memories /\ index' = index
                                 /\ vectors' = vectors
            /\ SysForget(id) => /\ FlagReturns(memories, id, TRUE) = "not_found"
                                /\ memories' = memories /\ index' = index
            /\ SysRestore(id) => /\ FlagReturns(memories, id, FALSE) = "not_found"
                                 /\ memories' = memories /\ index' = index]_vars

\* ------------------------------------------------------------------------
\* Access counting
\* ------------------------------------------------------------------------

\* C25: when no access is in progress, the access_count of every memory is
\* the number of accesses to it that have completed.
C25_AccessesCounted ==
    (\A p \in Thinkers : call.thinkers[p].pc = "idle")
        => \A id \in AccessIds : memories[id].access_count = call.completed[id]

\* ------------------------------------------------------------------------
\* Vector backends
\* ------------------------------------------------------------------------

\* C28: the LanceDB table holds at most one row per id, whatever upserts and
\* deletes ran and however they interleaved, so a search never returns an id
\* twice.
C28_OneVectorPerId ==
    \A r1 \in vectors.table, r2 \in vectors.table : r1.id = r2.id => r1 = r2

\* the step is one of an upsert with a vector of the wrong length
WrongLengthStep ==
    \/ lastOp' = "file_upsert" /\ ret'.len # Dimension
    \/ \E p \in Tasks :
          /\ call.tasks[p].pc \in {"delete", "add"}
          /\ call.tasks[p].vector.len # Dimension
          /\ call'.tasks[p] # call.tasks[p]

\* C30: an upsert with a vector whose length is not the backend's dimension
\* changes no stored vector, and it returns an error.
C30_DimensionChecked ==
    [][WrongLengthStep =>
          /\ vectors' = vectors
          /\ lastOp' \in {"file_upsert", "lance_upsert"} => ret'.outcome = "err"]_vars

\* the step creates the ANN index
IndexCreated == call'.created # call.created

\* the task whose step it is sits in search, at create_index, of a backend
\* with ANN on that has made no index yet
CreatedInSearch(p) ==
    /\ call.tasks[p].pc = "create"
    /\ call.enabled
    /\ call.created = 0
    /\ call'.created = 1

\* below the threshold and with no index, a search whose vector has the
\* right length is answered, from the table without an index
AnsweredUnindexed ==
    \A p \in Tasks :
        (call.tasks[p].pc = "query" /\ call'.tasks[p].pc = "idle" /\ call.indices = 0)
            => ret'.outcome = "ok" /\ ~ret'.indexed

\* C29 (as stated): the ANN index is created only inside search, only when
\* ANN is on and the table holds at least min_rows_for_index rows, and at
\* most once per backend instance; below the threshold search still answers.
C29_CreatedAboveThreshold ==
    [][/\ IndexCreated => \E p \in Tasks :
                             CreatedInSearch(p) /\ call.rows >= MinRowsForIndex
       /\ AnsweredUnindexed]_vars

\* C29 (amended): the ANN index is created only inside search, only when
\* ANN is on and the row count that search read under the write lock was at
\* least min_rows_for_index, and at most once per backend instance however
\* the searches interleave; below the threshold search still answers.
C29_IndexCreatedOnce ==
    [][/\ IndexCreated => \E p \in Tasks :
                             CreatedInSearch(p) /\ call.tasks[p].counted >= MinRowsForIndex
       /\ AnsweredUnindexed]_vars

\* C29 witness: the index has been created once while another search, which
\* saw ann_index_ready false, waits for the write lock.
C29_Witness ==
    /\ call.op = "ann"
    /\ call.created = 1
    /\ \E p \in Tasks : call.tasks[p].pc = "lock"

\* ------------------------------------------------------------------------
\* Ranges
\* ------------------------------------------------------------------------

\* C31: every memory built or changed by the builders, the HTTP create
\* handler, maintenance decay and the confidence operations has an
\* importance in [0, 1] and a confidence score in [0, 1].
C31_InRange ==
    call.op = "range" =>
        /\ 0 <= call.memory.importance /\ call.memory.importance <= 100
        /\ 0 <= call.memory.confidence.score /\ call.memory.confidence.score <= 1000

\* ------------------------------------------------------------------------
\* Locks
\* ------------------------------------------------------------------------

\* a task that takes the working-memory lock does not hold the
\* current-episode lock
WmBeforeEp ==
    \A p \in Tasks : (call'.wm = p /\ call.wm # p) => call.ep # p

\* C32: no interleaving of the calls on one MemoryCortex deadlocks: the
\* working-memory lock is never taken by a task that holds the
\* current-episode lock, and under fair scheduling every call returns, with
\* its locks released.
C32_NoDeadlock ==
    /\ [][WmBeforeEp]_vars
    /\ \A p \in Tasks :
          Busy(p) ~> (~Busy(p) /\ call.wm # p /\ call.ep # p)

\* C32 witness: one task holds the working-memory lock and waits, inside
\* remember, for the current-episode lock that another task holds.
C32_Witness ==
    /\ call.op = "locks"
    /\ \E p \in Tasks, q \in Tasks :
          /\ p # q
          /\ call.wm = p /\ call.ep = q
          /\ Instr(p) = "ep_write"

\* ------------------------------------------------------------------------
\* Fields owned by think_about and by maintenance decay
\* ------------------------------------------------------------------------

\* C33: the write of think_about and the write of maintenance decay leave
\* the forgotten flag of every memory as forget and restore last set it.
C33_OwnFieldsOnly ==
    [][lastOp' \in {"think_about", "apply_decay"} =>
          \A id \in AccessIds : memories'[id].forgotten = memories[id].forgotten]_vars

\* ------------------------------------------------------------------------
\* Episodes under concurrent calls
\* ------------------------------------------------------------------------

\* the memories linked to episode e, in the current episode or in the
\* experience_memories table
LinkedIn(links, cur, e) ==
    {l.memory_id : l \in {k \in links : k.experience_id = e}}
        \cup (IF cur # NoRow /\ cur.id = e THEN SeqRange(cur.memory_ids) ELSE {})

\* a link to e is added only while e is the current episode and its row is
\* not ended
LinkedWhileOpen(e) ==
    LinkedIn(expLinks', current', e) \ LinkedIn(expLinks, current, e) # {}
        => /\ current # NoRow /\ current.id = e
           /\ experiences[e] # NoRow /\ experiences[e].ended_at = NotEnded

\* the end_episode that writes the end of e has counted every memory linked
\* to e
EndCountsLinked(e) ==
    (experiences[e] # NoRow /\ experiences[e].ended_at = NotEnded
        /\ experiences'[e].ended_at # NotEnded)
        => \E p \in Tasks :
              /\ call.tasks[p].pc = "update" /\ call'.tasks[p].pc = "idle"
              /\ LinkedIn(expLinks, current, e) \subseteq call.tasks[p].counted

\* C34: under every interleaving of remember, start_episode and end_episode
\* a memory is linked to an episode only while the episode is current and
\* open, and end_episode computes the importance over every memory linked
\* to the episode it ends.
C34_LinkedOnlyWhileOpen ==
    [][\A e \in EpIds : LinkedWhileOpen(e) /\ EndCountsLinked(e)]_vars

\* C34 witness: an end_episode has ended an episode that holds a memory
\* while a remember of another task waits for the episode lock.
C34_Witness ==
    /\ call.op = "race"
    /\ lastOp = "end_episode"
    /\ \E e \in EpIds : experiences[e] # NoRow /\ experiences[e].ended_at # NotEnded
                          /\ LinkedIn(expLinks, current, e) # {}
    /\ \E p \in Tasks : call.tasks[p].pc = "ep"

\* ------------------------------------------------------------------------
\* delete and create_association
\* ------------------------------------------------------------------------

\* C35: when delete(id) returns, no association names id as its source or
\* its target, whatever create_association calls ran beside it.
C35_NoDanglingEdge ==
    [][lastOp' = "delete" =>
          \A a \in associations' :
              a.source_id # call'.deleted /\ a.target_id # call'.deleted]_vars

\* ------------------------------------------------------------------------
\* remember into a full working memory
\* ------------------------------------------------------------------------

\* the items of working memory that refer to id
ItemsOf(s, id) == {i \in 1..Len(s) : s[i].memory_id = id}

\* C36: after remember(m, ttl) with no ttl or a ttl that has not elapsed,
\* working memory holds exactly one item for m.id, whatever it held before.
C36_RememberedIsHeld ==
    [][\A id \in Ids, ttl \in {NoExpiry, 1} :
          (lastOp' \in {"remember", "remember_trim"} /\ items' = WmRemember(items, id, ttl))
              => Cardinality(ItemsOf(items', id)) = 1]_vars

\* ------------------------------------------------------------------------
\* Working memory and the store
\* ------------------------------------------------------------------------

\* C37: no item get_context returns refers to a memory that the store has
\* forgotten or no longer holds.
C37_ContextIsLive ==
    lastOp = "get_context" =>
        \A k \in 1..Len(ret) :
            HasRow(memories, ret[k].memory_id) /\ ~memories[ret[k].memory_id].forgotten

\* ------------------------------------------------------------------------
\* Graph scores of hybrid_rank
\* ------------------------------------------------------------------------

\* seed_score x the relation multiplier, summed over the seeds taken[1..k]
\* whose neighborhood holds n
RECURSIVE TermSum(_, _, _)
TermSum(taken, k, n) ==
    IF k = 0 THEN 0
    ELSE TermSum(taken, k - 1, n)
         + (IF n \in SeqRange(taken[k].nb.neighbors)
            THEN (taken[k].score * RelMult(taken[k].nb.associations, taken[k].id, n)) \div 100
            ELSE 0)

\* C38: the raw graph score of a memory is the sum of one term per seed
\* whose neighborhood holds it, and no seed id is expanded twice.
C38_OneTermPerSeed ==
    (call.op = "expand" /\ call.pc = "done") =>
        /\ \A n \in GraphIds :
               call.st.graph_raw[n] = TermSum(call.taken, Len(call.taken), n)
        /\ \A i, j \in 1..Len(call.taken) :
               call.taken[i].id = call.taken[j].id => i = j

\* ------------------------------------------------------------------------
\* Termination of get_neighbors
\* ------------------------------------------------------------------------

Traversing == call.op = "get_neighbors" /\ call.pc \in {"round", "node"}

\* C39: a started get_neighbors returns, whatever the association graph,
\* after at most depth rounds and without expanding a node twice.
C39_Terminates ==
    /\ [](call.op = "get_neighbors" =>
            /\ call.rounds <= call.depth
            /\ \A i, j \in 1..Len(call.expanded) :
                   call.expanded[i] = call.expanded[j] => i = j)
    /\ Traversing ~> (call.pc = "done")

\* a traversal of MaxDepth rounds has returned on a graph with a self-loop
\* or a pair of opposite edges, having expanded two nodes
C39_Witness ==
    /\ call.op = "get_neighbors" /\ call.pc = "done" /\ lastOp = "get_neighbors"
    /\ call.rounds = MaxDepth /\ Len(call.expanded) >= 2
    /\ \E a \in associations :
           \/ a.source_id = a.target_id
           \/ \E b \in associations :
                  b.source_id = a.target_id /\ b.target_id = a.source_id

\* ------------------------------------------------------------------------
\* Version numbers
\* ------------------------------------------------------------------------

\* C40: every saved version takes a number above every number assigned to
\* the memory before, and a rollback to a missing number returns NotFound
\* and saves nothing.
C40_NumbersGrow ==
    [][/\ lastOp' = "save_version" =>
              \A v \in call'.versions \ call.versions :
                  \A n \in call.assigned : v.version_number > n
       /\ lastOp' = "rollback_missing" =>
              ret' = "NotFound" /\ call'.versions = call.versions]_vars

====
